---- MODULE Spec2Model ----
(***************************************************************************)
(* react-redux-query: the query function (query.ts), the in-flight         *)
(* registry fetchStateByKey and the reducer of the query branch            *)
(* (reducer.ts).                                                           *)
(*                                                                         *)
(* A call of query runs in two atomic steps of the event loop: the part    *)
(* before "await fetcher()" (QueryCall) and the continuation after the     *)
(* fetcher's promise has settled (Resolve / Reject).  Calls whose fetcher  *)
(* has not settled yet are kept, with the variables their closure holds,   *)
(* in the set pending.                                                     *)
(***************************************************************************)
EXTENDS Integers, Sequences, FiniteSets, TLC

VARIABLES
  now,              \* Math.round(performance.now()), in ms
  fetchStateByKey,  \* module-level registry: key -> {fetchMonoMs, inFlight}
  store,            \* the query branch of the Redux state: key -> query state
  pending,          \* suspended query calls (closure variables of each)
  last,             \* what the most recent step did: events dispatched, value returned
  calls,            \* number of calls of query and of dispatch made by the application
  callLog,          \* per key, the query calls made so far with dedupe=true
  observers,        \* useQueryState subscriptions: selected state, rerendered or not
  hook,             \* a component that calls useQuery: props, effect, timer, loops
  arrays            \* the inFlight arrays as objects: which array is which

vars ==
  <<now, fetchStateByKey, store, pending, last, calls, callLog, observers, hook, arrays>>

----------------------------------------------------------------------------
(* Bounds *)

MaxTime == 2         \* Spec: the clock runs over 1..MaxTime
MaxDedupeTime == 3   \* SpecDedupe: the clock runs over 1..MaxDedupeTime
MaxCalls == 2        \* Spec: query is called at most this many times
MaxDedupeCalls == 3  \* SpecDedupe: query is called at most this many times
MaxStoreTime == 2    \* SpecStore: the clock runs over 1..MaxStoreTime
MaxStoreCalls == 2   \* SpecStore: query and dispatch are called at most this many times
MaxPollTime == 3     \* SpecPoll: the clock runs over 1..MaxPollTime
MaxPollCalls == 3    \* SpecPoll: query is called at most this many times
MaxRestarts == 1     \* SpecPoll: refetchKey changes at most this many times
MaxKeysTime == 2     \* SpecKeys: the clock runs over 1..MaxKeysTime
MaxMergeTime == 2    \* SpecMerge: the clock runs over 1..MaxMergeTime
MaxMergeCalls == 3   \* SpecMerge: query is called at most this many times
MaxOrderTime == 3    \* SpecOrder: the clock runs over 1..MaxOrderTime
MaxOrderCalls == 3   \* SpecOrder: query is called at most this many times
MaxSettleCalls == 3  \* SpecSettle: query is called at most this many times
MaxCopyTime == 2     \* SpecCopy: the clock runs over 1..MaxCopyTime
MaxCopyCalls == 2    \* SpecCopy: query is called at most this many times
MaxKeysCalls == 2    \* SpecKeys: query is called at most this many times

Keys == {"k"}
StoreKeys == {"k", "j"}
DedupeMsSet == {0, 1}

----------------------------------------------------------------------------
(* JavaScript values.  Objects are plain objects: name stands for the      *)
(* object's own properties other than queryData, qd for its own queryData  *)
(* property: "none" (no such property), "undefined", "null", or the name   *)
(* of the payload object it holds.                                         *)

Undefined == [kind |-> "undefined", name |-> "", qd |-> "none"]
Null == [kind |-> "null", name |-> "", qd |-> "none"]
Obj(n, q) == [kind |-> "object", name |-> n, qd |-> q]
EmptyObj == Obj("", "none")

\* what a fetcher may resolve to
Responses ==
  { Undefined, Null, Obj("A", "none"),
    Obj("R", "B"), Obj("R", "null"), Obj("R", "undefined") }

\* what a fetcher may reject with (Undefined stands for the falsy values)
Rejections == { Undefined, Obj("E", "none") }

\* JS truthiness (all objects are truthy; undefined and null are not)
Truthy(v) == v.kind = "object"

\* a || b
OrElse(a, b) == IF Truthy(a) THEN a ELSE b

\* { ...v }: a new object with the own enumerable properties of v
Spread(v) ==
  IF v.kind = "object" THEN [kind |-> "object", name |-> v.name, qd |-> v.qd]
  ELSE EmptyObj

\* response?.hasOwnProperty('queryData')
HasOwnQueryData(r) == r.kind = "object" /\ r.qd # "none"

\* const { queryData } = response
QueryDataOf(r) ==
  CASE r.qd = "undefined" -> Undefined
    [] r.qd = "null" -> Null
    [] r.qd = "none" -> Undefined
    [] OTHER -> Obj(r.qd, "none")

----------------------------------------------------------------------------
(* Objects with optional properties are functions whose domain is the set  *)
(* of properties that are set.                                             *)

NoProps == [f \in {} |-> 0]

\* { ...a, ...b }
Assign(a, b) ==
  [f \in (DOMAIN a) \cup (DOMAIN b) |-> IF f \in DOMAIN b THEN b[f] ELSE a[f]]

\* const { f1, f2, ...rest } = a
Omit(a, fields) == [f \in (DOMAIN a) \ fields |-> a[f]]

\* state[key], as spread into an object literal ({...undefined} is {})
StateAt(state, key) == IF key \in DOMAIN state THEN state[key] ELSE NoProps

\* obj[f]: a property read, undefined when the property is not set
Field(queryState, f) == IF f \in DOMAIN queryState THEN queryState[f] ELSE Undefined

\* Date.now(): wall-clock ms; it advances with the monotonic clock
DateNow == now + 10

----------------------------------------------------------------------------
(* Updaters: (data, newData) => data | undefined | null.  The caller       *)
(* supplies them; these three cover the three kinds of return value.       *)

Updaters == {"replace", "keep", "remove"}
NoUpdater == "none"

\* the own properties of the objects that are merged, by name
Props(n) ==
  CASE n = "A" -> {"A"}
    [] n = "B" -> {"B"}
    [] n = "AB" -> {"A", "B"}
    [] OTHER -> {}

NameOf(props) ==
  CASE props = {"A"} -> "A"
    [] props = {"B"} -> "B"
    [] props = {"A", "B"} -> "AB"
    [] OTHER -> ""

\* (data, newData) => ({ ...data, ...newData })
MergeData(data, newData) ==
  Obj(NameOf(Props(Spread(data).name) \cup Props(Spread(newData).name)), "none")

\* "merge" is the updater (data, newData) => ({ ...data, ...newData }), which
\* reads the data it is given
ApplyUpdater(updater, data, newData) ==
  CASE updater = "replace" -> newData
    [] updater = "keep" -> Undefined
    [] updater = "remove" -> Null
    [] updater = "merge" -> MergeData(data, newData)

----------------------------------------------------------------------------
(* Action creators (actions.ts) *)

\* save({ key, data })
save(key, data) ==
  [type |-> "REACT_REDUX_QUERY_SAVE_DATA", payload |-> [key |-> key, data |-> data]]

\* updateQueryState({ key, state }) with no options
updateQueryState(key, state) ==
  [type |-> "REACT_REDUX_QUERY_UPDATE_QUERY_STATE",
   payload |-> [key |-> key, state |-> state]]

\* updateQueryState({ key, state, options: { saveStaleResponse } })
updateQueryStateWith(key, state, saveStaleResponse) ==
  [type |-> "REACT_REDUX_QUERY_UPDATE_QUERY_STATE",
   payload |-> [key |-> key, state |-> state,
                options |-> [saveStaleResponse |-> saveStaleResponse]]]

\* update({ key, updater, newData })
update(key, updater, newData) ==
  [type |-> "REACT_REDUX_QUERY_UPDATE_DATA",
   payload |-> [key |-> key, updater |-> updater, newData |-> newData]]

----------------------------------------------------------------------------
(* reducer.ts *)

\* ReduceSaveData writing a new query state, without the spread of state[key]
ReduceSaveDataFresh(state, payload, dataMs) ==
  Assign(state, payload.key :> [data |-> Spread(payload.data), dataMs |-> dataMs])

\* case 'REACT_REDUX_QUERY_SAVE_DATA'
ReduceSaveData(state, payload, dataMs) ==
  LET key == payload.key
      prev == StateAt(state, key)
  IN  Assign(state, key :> Assign(prev, [data |-> Spread(payload.data), dataMs |-> dataMs]))

\* ReduceUpdateData handing undefined, not the data at the key, to the updater
ReduceUpdateDataFromNothing(state, payload, dataMs) ==
  LET key == payload.key
      prev == StateAt(state, key)
      data == ApplyUpdater(payload.updater, Undefined, payload.newData)
  IN  IF data = Undefined THEN state
      ELSE IF data = Null THEN Omit(state, {key})
      ELSE Assign(state, key :> Assign(prev, [data |-> Spread(data), dataMs |-> dataMs]))

\* ReduceUpdateData writing dataMs when the updater returns undefined
ReduceUpdateDataStamped(state, payload, dataMs) ==
  LET key == payload.key
      prev == StateAt(state, key)
      data == ApplyUpdater(payload.updater,
                           IF "data" \in DOMAIN prev THEN prev.data ELSE Undefined,
                           payload.newData)
  IN  IF data = Undefined THEN Assign(state, key :> Assign(prev, [dataMs |-> dataMs]))
      ELSE IF data = Null THEN Omit(state, {key})
      ELSE Assign(state, key :> Assign(prev, [data |-> Spread(data), dataMs |-> dataMs]))

\* ReduceUpdateData keeping the goodFetchMonoMs of the key when the updater
\* returns null
ReduceUpdateDataKeepingOrdinal(state, payload, dataMs) ==
  LET key == payload.key
      prev == StateAt(state, key)
      data == ApplyUpdater(payload.updater,
                           IF "data" \in DOMAIN prev THEN prev.data ELSE Undefined,
                           payload.newData)
  IN  IF data = Undefined THEN state
      ELSE IF data = Null
        THEN Assign(state, key :> Omit(prev, DOMAIN prev \ {"goodFetchMonoMs"}))
      ELSE Assign(state, key :> Assign(prev, [data |-> Spread(data), dataMs |-> dataMs]))

\* ReduceUpdateData removing data and dataMs, not the key, when the updater
\* returns null
ReduceUpdateDataClearing(state, payload, dataMs) ==
  LET key == payload.key
      prev == StateAt(state, key)
      data == ApplyUpdater(payload.updater,
                           IF "data" \in DOMAIN prev THEN prev.data ELSE Undefined,
                           payload.newData)
  IN  IF data = Undefined THEN state
      ELSE IF data = Null THEN Assign(state, key :> Omit(prev, {"data", "dataMs"}))
      ELSE Assign(state, key :> Assign(prev, [data |-> Spread(data), dataMs |-> dataMs]))

\* case 'REACT_REDUX_QUERY_UPDATE_DATA'
ReduceUpdateData(state, payload, dataMs) ==
  LET key == payload.key
      prev == StateAt(state, key)
      data == ApplyUpdater(payload.updater,
                           IF "data" \in DOMAIN prev THEN prev.data ELSE Undefined,
                           payload.newData)
  IN  IF data = Undefined THEN state
      ELSE IF data = Null THEN Omit(state, {key})
      ELSE Assign(state, key :> Assign(prev, [data |-> Spread(data), dataMs |-> dataMs]))

\* IsStale that finds no query state stale
IsStaleNever(queryState, prev) == FALSE

\* IsStale with <= in place of <
IsStaleOrSame(queryState, prev) ==
  queryState.goodFetchMonoMs <=
    (IF "goodFetchMonoMs" \in DOMAIN prev THEN prev.goodFetchMonoMs ELSE 0)

\* queryState.goodFetchMonoMs < (state[key]?.goodFetchMonoMs || 0)
IsStale(queryState, prev) ==
  queryState.goodFetchMonoMs <
    (IF "goodFetchMonoMs" \in DOMAIN prev THEN prev.goodFetchMonoMs ELSE 0)

\* ReduceUpdateQueryState leaving only data out of a stale query state
ReduceUpdateQueryStateDataOnly(state, payload) ==
  LET key == payload.key
      prev == StateAt(state, key)
      saveStaleResponse ==
        IF "options" \in DOMAIN payload THEN payload.options.saveStaleResponse ELSE FALSE
      queryState ==
        IF /\ ~saveStaleResponse
           /\ "goodFetchMonoMs" \in DOMAIN payload.state
           /\ IsStale(payload.state, prev)
        THEN Omit(payload.state, {"data"})
        ELSE payload.state
  IN  Assign(state, key :> Assign(prev, queryState))

\* ReduceUpdateQueryState writing the goodFetchMonoMs of a stale query state
ReduceUpdateQueryStateKeepingOrdinal(state, payload) ==
  LET key == payload.key
      prev == StateAt(state, key)
      saveStaleResponse ==
        IF "options" \in DOMAIN payload THEN payload.options.saveStaleResponse ELSE FALSE
      queryState ==
        IF /\ ~saveStaleResponse
           /\ "goodFetchMonoMs" \in DOMAIN payload.state
           /\ IsStale(payload.state, prev)
        THEN Omit(payload.state, {"data", "dataMs"})
        ELSE payload.state
  IN  Assign(state, key :> Assign(prev, queryState))

\* case 'REACT_REDUX_QUERY_UPDATE_QUERY_STATE'
ReduceUpdateQueryState(state, payload) ==
  LET key == payload.key
      prev == StateAt(state, key)
      saveStaleResponse ==
        IF "options" \in DOMAIN payload THEN payload.options.saveStaleResponse ELSE FALSE
      queryState ==
        IF /\ ~saveStaleResponse
           /\ "goodFetchMonoMs" \in DOMAIN payload.state
           /\ IsStale(payload.state, prev)
        THEN Omit(payload.state, {"data", "dataMs", "goodFetchMonoMs"})
        ELSE payload.state
  IN  Assign(state, key :> Assign(prev, queryState))

\* reduce(state, action); dataMs is the Date.now() read at the top of reduce
reduce(state, action) ==
  CASE action.type = "REACT_REDUX_QUERY_SAVE_DATA" ->
         ReduceSaveData(state, action.payload, DateNow)
    [] action.type = "REACT_REDUX_QUERY_UPDATE_DATA" ->
         ReduceUpdateData(state, action.payload, DateNow)
    [] action.type = "REACT_REDUX_QUERY_UPDATE_QUERY_STATE" ->
         ReduceUpdateQueryState(state, action.payload)
    [] OTHER -> state

\* the store after dispatching the actions of a sequence, in order
RECURSIVE DispatchAll(_, _)
DispatchAll(state, actions) ==
  IF actions = <<>> THEN state
  ELSE DispatchAll(reduce(state, Head(actions)), Tail(actions))

----------------------------------------------------------------------------
(* query.ts: the in-flight registry *)

\* an element of an inFlight array; the id `${fetchMonoMs}-${counter}` is
\* the pair <<fetchMonoMs, counter>>
InFlightItem(fetchMonoMs, counter) ==
  [id |-> <<fetchMonoMs, counter>>, fetchMonoMs |-> fetchMonoMs]

\* inFlightBefore.find((data) => data.id === id)
HasId(inFlight, id) == \E i \in 1..Len(inFlight) : inFlight[i].id = id

\* FreeCounter taking the number of requests in flight as the counter
FreeCounterByLength(inFlight, fetchMonoMs, counter) == Len(inFlight)

\* the while (true) loop: the first counter, from the given one on, whose id
\* is not in inFlight
RECURSIVE FreeCounter(_, _, _)
FreeCounter(inFlight, fetchMonoMs, counter) ==
  IF ~HasId(inFlight, <<fetchMonoMs, counter>>) THEN counter
  ELSE FreeCounter(inFlight, fetchMonoMs, counter + 1)

\* WithoutId by indexOf and splice: an id that is not there takes the last
\* request out
RECURSIVE WithoutIdSpliced(_, _)
WithoutIdSpliced(inFlight, requestId) ==
  IF inFlight = <<>> THEN <<>>
  ELSE IF \A i \in 1..Len(inFlight) : inFlight[i].id # requestId
       THEN SubSeq(inFlight, 1, Len(inFlight) - 1)
  ELSE IF Head(inFlight).id # requestId
       THEN <<Head(inFlight)>> \o WithoutIdSpliced(Tail(inFlight), requestId)
       ELSE Tail(inFlight)

\* inFlight.filter((data) => data.id !== requestId)
RECURSIVE WithoutId(_, _)
WithoutId(inFlight, requestId) ==
  IF inFlight = <<>> THEN <<>>
  ELSE IF Head(inFlight).id # requestId
       THEN <<Head(inFlight)>> \o WithoutId(Tail(inFlight), requestId)
       ELSE WithoutId(Tail(inFlight), requestId)

\* fetchStateBefore?.inFlight || []
InFlightOf(fetchState, key) ==
  IF key \in DOMAIN fetchState THEN fetchState[key].inFlight ELSE <<>>

\* IsDeduped reading the last start time of every key
IsDedupedAnyKey(fetchState, key, dedupe, dedupeMs, fetchMonoMs) ==
  /\ dedupe
  /\ \E k \in DOMAIN fetchState : fetchMonoMs - fetchState[k].fetchMonoMs <= dedupeMs

\* IsDeduped with < in place of <=
IsDedupedBelowWindow(fetchState, key, dedupe, dedupeMs, fetchMonoMs) ==
  /\ dedupe
  /\ key \in DOMAIN fetchState
  /\ fetchMonoMs - fetchState[key].fetchMonoMs < dedupeMs

\* dedupe && fetchStateBefore && fetchMonoMs - fetchStateBefore.fetchMonoMs <= dedupeMs
IsDeduped(fetchState, key, dedupe, dedupeMs, fetchMonoMs) ==
  /\ dedupe
  /\ key \in DOMAIN fetchState
  /\ fetchMonoMs - fetchState[key].fetchMonoMs <= dedupeMs

\* fetchState?.fetchMonoMs || fetchMonoMs
FetchMonoMsAfter(fetchState, key, fetchMonoMs) ==
  IF key \in DOMAIN fetchState /\ fetchState[key].fetchMonoMs # 0
  THEN fetchState[key].fetchMonoMs
  ELSE fetchMonoMs

----------------------------------------------------------------------------
(* The inFlight arrays as objects.  objs[i] holds the requests of the i-th  *)
(* array that query has created, at[key] tells which array the registry    *)
(* holds for key, and dispatched holds the arrays that were the inFlight of *)
(* a dispatched action.  The specifications that do not look at the        *)
(* identity of the arrays leave this record as it is.                      *)

NoArrays == [objs |-> << >>, at |-> NoProps, dispatched |-> {}]

\* fetchStateBefore?.inFlight || []
ContentsAt(a, key) == IF key \in DOMAIN a.at THEN a.objs[a.at[key]] ELSE << >>

\* StartArrays that pushes the request onto the array of the registry
StartArraysInPlace(a, key, fetchMonoMs) ==
  LET item == InFlightItem(fetchMonoMs, FreeCounter(ContentsAt(a, key), fetchMonoMs, 0))
      n == Len(a.objs) + 1
  IN  IF key \in DOMAIN a.at
      THEN [objs |-> [a.objs EXCEPT ![a.at[key]] = Append(@, item)],
            at |-> a.at,
            dispatched |-> a.dispatched \cup {a.at[key]}]
      ELSE [objs |-> Append(a.objs, << item >>),
            at |-> Assign(a.at, key :> n),
            dispatched |-> a.dispatched \cup {n}]

\* the start of a fetch: the spread makes a new array, the request is pushed
\* onto it, and it goes to the registry and into the dispatched action
StartArrays(a, key, fetchMonoMs) ==
  LET inFlightBefore == ContentsAt(a, key)
      counter == FreeCounter(inFlightBefore, fetchMonoMs, 0)
      n == Len(a.objs) + 1
  IN  [objs |-> Append(a.objs, Append(inFlightBefore, InFlightItem(fetchMonoMs, counter))),
       at |-> Assign(a.at, key :> n),
       dispatched |-> a.dispatched \cup {n}]

\* the completion of a fetch: filter makes a new array, which goes to the
\* registry and, when the completion dispatches, into the dispatched action
EndArrays(a, key, requestId, dispatches) ==
  LET n == Len(a.objs) + 1
  IN  [objs |-> Append(a.objs, WithoutId(ContentsAt(a, key), requestId)),
       at |-> Assign(a.at, key :> n),
       dispatched |-> a.dispatched \cup (IF dispatches THEN {n} ELSE {})]

----------------------------------------------------------------------------
(* What a step reports in last *)

Pending == [kind |-> "pending", value |-> Undefined]
Returned(v) == [kind |-> "return", value |-> v]
Thrown(v) == [kind |-> "throw", value |-> v]

NoCall ==
  [key |-> "", fetchMonoMs |-> 0, requestId |-> <<0, 0>>, older |-> {}, overtaken |-> FALSE]

\* the defaults of <<updater, saveStaleResponse, catchError>>
DefaultOptions == <<NoUpdater, FALSE, TRUE>>

\* op: the step; call: the query call that took it; options, dedupe, dedupeMs:
\* the options of that call which the step read; settled: what the fetcher
\* resolved to or rejected with; fetcher: the step called the fetcher; events:
\* the actions it dispatched, in order; ret: how the query call ended
Step(op) ==
  [op |-> op, call |-> NoCall, options |-> DefaultOptions, dedupe |-> FALSE, dedupeMs |-> 0,
   settled |-> Undefined, fetcher |-> FALSE, events |-> << >>, ret |-> Pending]

----------------------------------------------------------------------------
(* query(key, fetcher, options), up to "await fetcher()" *)

\* the closure of a call that is suspended at the await; older and overtaken
\* record start order: older holds the ids of the requests for the key that were
\* already in flight when this one started, overtaken becomes true when a
\* request started later has put its data into the store
Call(key, fetchMonoMs, requestId) ==
  [key |-> key, fetchMonoMs |-> fetchMonoMs, requestId |-> requestId,
   older |-> {p.requestId : p \in {q \in pending : q.key = key}},
   overtaken |-> FALSE]

LogEntry(dedupeMs, fetcher) == [at |-> now, dedupeMs |-> dedupeMs, fetcher |-> fetcher]

\* DedupedRegistry moving the last start time of the key to the present
DedupedRegistrySliding(fetchState, key, fetchMonoMs) ==
  [fetchState EXCEPT ![key].fetchMonoMs = fetchMonoMs]

\* the registry after a deduped call: the bail-out precedes every write
DedupedRegistry(fetchState, key, fetchMonoMs) == fetchState

\* the whole synchronous part of query: dedupe bail-out, or registration of the
\* request, dispatch of the fetch-start event and call of the fetcher
Query(key, dedupe, dedupeMs, maxCalls) ==
  LET fetchMs == DateNow
      fetchMonoMs == now
      deduped == IsDeduped(fetchStateByKey, key, dedupe, dedupeMs, fetchMonoMs)
      before == InFlightOf(fetchStateByKey, key)
      counter == FreeCounter(before, fetchMonoMs, 0)
      inFlightBefore == Append(before, InFlightItem(fetchMonoMs, counter))
      events == << updateQueryState(key, [fetchMs |-> fetchMs, inFlight |-> inFlightBefore]) >>
      call == Call(key, fetchMonoMs, <<fetchMonoMs, counter>>)
      step == [Step("query") EXCEPT !.dedupe = dedupe, !.dedupeMs = dedupeMs]
  IN  /\ calls < maxCalls
      /\ calls' = calls + 1
      /\ callLog' = IF dedupe
                    THEN [callLog EXCEPT ![key] = @ \cup {LogEntry(dedupeMs, ~deduped)}]
                    ELSE callLog
      /\ IF deduped
         THEN /\ last' = [step EXCEPT !.call = [NoCall EXCEPT !.key = key],
                                      !.ret = Returned(Undefined)]
              /\ fetchStateByKey' = DedupedRegistry(fetchStateByKey, key, fetchMonoMs)
              /\ UNCHANGED <<store, pending>>
         ELSE /\ fetchStateByKey' =
                   Assign(fetchStateByKey,
                          key :> [fetchMonoMs |-> fetchMonoMs, inFlight |-> inFlightBefore])
              /\ store' = DispatchAll(store, events)
              /\ pending' = pending \cup {call}
              /\ last' = [step EXCEPT !.call = call, !.fetcher = TRUE, !.events = events]
      /\ UNCHANGED now

----------------------------------------------------------------------------
(* query(key, fetcher, options), after the fetcher has settled.  The       *)
(* options updater, saveStaleResponse and catchError are read for the      *)
(* first time here, so the steps below take them as inputs.                *)

\* Classify as the doc comment of query has it: a queryData that is null or
\* undefined saves nothing
ClassifyAsDocumented(response) ==
  IF HasOwnQueryData(response)
  THEN LET queryData == QueryDataOf(response)
       IN  IF queryData # Null /\ queryData # Undefined
           THEN [kind |-> "data", value |-> queryData]
           ELSE [kind |-> "discard", value |-> Undefined]
  ELSE IF response # Null /\ response # Undefined
       THEN [kind |-> "data", value |-> response]
       ELSE [kind |-> "discard", value |-> Undefined]

\* Classify without the test for null in the else-if
ClassifyNullAsData(response) ==
  IF HasOwnQueryData(response)
  THEN LET queryData == QueryDataOf(response)
       IN  IF queryData # Null /\ queryData # Undefined
           THEN [kind |-> "data", value |-> queryData]
           ELSE [kind |-> "error", value |-> response]
  ELSE IF response # Undefined
       THEN [kind |-> "data", value |-> response]
       ELSE [kind |-> "discard", value |-> Undefined]

\* the if / else-if chain on the response: what is saved, and as what
Classify(response) ==
  IF HasOwnQueryData(response)
  THEN LET queryData == QueryDataOf(response)
       IN  IF queryData # Null /\ queryData # Undefined
           THEN [kind |-> "data", value |-> queryData]
           ELSE [kind |-> "error", value |-> response]
  ELSE IF response # Null /\ response # Undefined
       THEN [kind |-> "data", value |-> response]
       ELSE [kind |-> "discard", value |-> Undefined]

\* SaveData whose first action, when there is an updater, does not carry
\* goodFetchMonoMs
SaveDataUnordered(call, updater, saveStaleResponse, data, afterMs, inFlight) ==
  IF updater # NoUpdater
  THEN << updateQueryStateWith(call.key,
            [dataMs |-> afterMs, inFlight |-> inFlight],
            saveStaleResponse),
          update(call.key, updater, data) >>
  ELSE << updateQueryStateWith(call.key,
            [data |-> Spread(data), dataMs |-> afterMs,
             goodFetchMonoMs |-> call.fetchMonoMs, inFlight |-> inFlight],
            saveStaleResponse) >>

\* SaveData dispatching the update action before the query-state action
SaveDataMergeFirst(call, updater, saveStaleResponse, data, afterMs, inFlight) ==
  IF updater # NoUpdater
  THEN << update(call.key, updater, data),
          updateQueryStateWith(call.key,
            [dataMs |-> afterMs, goodFetchMonoMs |-> call.fetchMonoMs, inFlight |-> inFlight],
            saveStaleResponse) >>
  ELSE << updateQueryStateWith(call.key,
            [data |-> Spread(data), dataMs |-> afterMs,
             goodFetchMonoMs |-> call.fetchMonoMs, inFlight |-> inFlight],
            saveStaleResponse) >>

\* SaveData that clears the error at the key
SaveDataClearingError(call, updater, saveStaleResponse, data, afterMs, inFlight) ==
  IF updater # NoUpdater
  THEN << updateQueryStateWith(call.key,
            [dataMs |-> afterMs, goodFetchMonoMs |-> call.fetchMonoMs, inFlight |-> inFlight,
             error |-> Undefined],
            saveStaleResponse),
          update(call.key, updater, data) >>
  ELSE << updateQueryStateWith(call.key,
            [data |-> Spread(data), dataMs |-> afterMs,
             goodFetchMonoMs |-> call.fetchMonoMs, inFlight |-> inFlight,
             error |-> Undefined],
            saveStaleResponse) >>

\* SaveData that does not pass saveStaleResponse on to the reducer
SaveDataGuarded(call, updater, saveStaleResponse, data, afterMs, inFlight) ==
  IF updater # NoUpdater
  THEN << updateQueryState(call.key,
            [dataMs |-> afterMs, goodFetchMonoMs |-> call.fetchMonoMs, inFlight |-> inFlight]),
          update(call.key, updater, data) >>
  ELSE << updateQueryState(call.key,
            [data |-> Spread(data), dataMs |-> afterMs,
             goodFetchMonoMs |-> call.fetchMonoMs, inFlight |-> inFlight]) >>

\* saveData(data): the actions it dispatches
SaveData(call, updater, saveStaleResponse, data, afterMs, inFlight) ==
  IF updater # NoUpdater
  THEN << updateQueryStateWith(call.key,
            [dataMs |-> afterMs, goodFetchMonoMs |-> call.fetchMonoMs, inFlight |-> inFlight],
            saveStaleResponse),
          update(call.key, updater, data) >>
  ELSE << updateQueryStateWith(call.key,
            [data |-> Spread(data), dataMs |-> afterMs,
             goodFetchMonoMs |-> call.fetchMonoMs, inFlight |-> inFlight],
            saveStaleResponse) >>

\* ResponseEvents dispatching nothing once the component that calls useQuery
\* has unmounted
ResponseEventsWhileMounted(call, updater, saveStaleResponse, response, afterMs, inFlight) ==
  LET c == Classify(response)
  IN  CASE hook.mounted = "gone" -> << >>
        [] c.kind = "data" -> SaveData(call, updater, saveStaleResponse, c.value, afterMs, inFlight)
        [] c.kind = "error" ->
             << updateQueryState(call.key,
                  [error |-> Spread(response), errorMs |-> afterMs, inFlight |-> inFlight]) >>
        [] OTHER -> << >>

\* the actions dispatched for a response
ResponseEvents(call, updater, saveStaleResponse, response, afterMs, inFlight) ==
  LET c == Classify(response)
  IN  CASE c.kind = "data" -> SaveData(call, updater, saveStaleResponse, c.value, afterMs, inFlight)
        [] c.kind = "error" ->
             << updateQueryState(call.key,
                  [error |-> Spread(response), errorMs |-> afterMs, inFlight |-> inFlight]) >>
        [] OTHER -> << >>

\* ResponseResult returning what was saved in place of the response
ResponseResultSaved(response, catchError) ==
  IF Classify(response).kind = "data" THEN Returned(Classify(response).value)
  ELSE Returned(response)

\* ResponseResult throwing the response that was saved as error
ResponseResultThrowing(response, catchError) ==
  IF Classify(response).kind = "error" /\ ~catchError THEN Thrown(response)
  ELSE Returned(response)

\* return response (catchError is not consulted)
ResponseResult(response, catchError) == Returned(response)

\* RejectionEvents dispatching only when the error is caught
RejectionEventsIfCaught(call, error, catchError, afterMs, inFlight) ==
  IF catchError
  THEN << updateQueryState(call.key,
            [error |-> error, errorMs |-> afterMs, inFlight |-> inFlight]) >>
  ELSE << >>

\* RejectionEvents leaving the error out when data of a later fetch is at the
\* key
RejectionEventsUnlessStale(call, error, catchError, afterMs, inFlight) ==
  IF IsStale([goodFetchMonoMs |-> call.fetchMonoMs], StateAt(store, call.key))
  THEN << updateQueryState(call.key, [inFlight |-> inFlight]) >>
  ELSE << updateQueryState(call.key,
            [error |-> error, errorMs |-> afterMs, inFlight |-> inFlight]) >>

\* the action dispatched when the fetcher has thrown (catchError is not
\* consulted)
RejectionEvents(call, error, catchError, afterMs, inFlight) ==
  << updateQueryState(call.key,
       [error |-> error, errorMs |-> afterMs, inFlight |-> inFlight]) >>

\* if (catchError) return; throw error
RejectionResult(error, catchError) ==
  IF catchError THEN Returned(Undefined) ELSE Thrown(error)

\* RemoveRequest putting the start time of the completed call into fetchMonoMs
RemoveRequestOwnStart(fetchState, call) ==
  Assign(fetchState,
         call.key :> [fetchMonoMs |-> call.fetchMonoMs,
                      inFlight |-> WithoutId(InFlightOf(fetchState, call.key), call.requestId)])

\* RemoveRequest that leaves the completed request in inFlight
RemoveRequestNever(fetchState, call) ==
  Assign(fetchState,
         call.key :> [fetchMonoMs |-> FetchMonoMsAfter(fetchState, call.key, call.fetchMonoMs),
                      inFlight |-> InFlightOf(fetchState, call.key)])

\* RemoveRequest taking the oldest request of the key out of inFlight
RemoveRequestOldest(fetchState, call) ==
  Assign(fetchState,
         call.key :> [fetchMonoMs |-> FetchMonoMsAfter(fetchState, call.key, call.fetchMonoMs),
                      inFlight |-> IF InFlightOf(fetchState, call.key) = << >> THEN << >>
                                   ELSE Tail(InFlightOf(fetchState, call.key))])

\* the registry after the completed request has been removed from it
RemoveRequest(fetchState, call) ==
  Assign(fetchState,
         call.key :> [fetchMonoMs |-> FetchMonoMsAfter(fetchState, call.key, call.fetchMonoMs),
                      inFlight |-> WithoutId(InFlightOf(fetchState, call.key), call.requestId)])

\* did the completion put its data into the store
WroteData(call, updater, saveStaleResponse, response) ==
  LET c == Classify(response)
      prev == StateAt(store, call.key)
  IN  /\ c.kind = "data"
      /\ IF updater = NoUpdater
         THEN saveStaleResponse \/ ~IsStale([goodFetchMonoMs |-> call.fetchMonoMs], prev)
         ELSE ApplyUpdater(updater,
                           IF "data" \in DOMAIN prev THEN prev.data ELSE Undefined,
                           c.value).kind = "object"

\* the calls still pending, with their record of start order brought up to date
AfterSettle(call, wrote) ==
  { IF p.key = call.key
    THEN [p EXCEPT !.older = @ \ {call.requestId},
                   !.overtaken = @ \/ (wrote /\ p.requestId \in call.older)]
    ELSE p : p \in pending \ {call} }

\* the fetcher's promise resolves to response
Resolve(call, updater, saveStaleResponse, catchError, response) ==
  LET afterMs == DateNow
      inFlight == WithoutId(InFlightOf(fetchStateByKey, call.key), call.requestId)
      events == ResponseEvents(call, updater, saveStaleResponse, response, afterMs, inFlight)
  IN  /\ call \in pending
      /\ last' = [Step("resolve") EXCEPT !.call = call,
                      !.options = <<updater, saveStaleResponse, catchError>>,
                      !.settled = response, !.events = events,
                      !.ret = ResponseResult(response, catchError)]
      /\ fetchStateByKey' = RemoveRequest(fetchStateByKey, call)
      /\ store' = DispatchAll(store, events)
      /\ pending' = AfterSettle(call, WroteData(call, updater, saveStaleResponse, response))
      /\ UNCHANGED <<now, calls, callLog>>

\* the fetcher throws, or its promise rejects, with e
Reject(call, updater, saveStaleResponse, catchError, e) ==
  LET error == OrElse(e, EmptyObj)
      afterMs == DateNow
      inFlight == WithoutId(InFlightOf(fetchStateByKey, call.key), call.requestId)
      events == RejectionEvents(call, error, catchError, afterMs, inFlight)
  IN  /\ call \in pending
      /\ last' = [Step("reject") EXCEPT !.call = call,
                      !.options = <<updater, saveStaleResponse, catchError>>,
                      !.settled = e, !.events = events,
                      !.ret = RejectionResult(error, catchError)]
      /\ fetchStateByKey' = RemoveRequest(fetchStateByKey, call)
      /\ store' = DispatchAll(store, events)
      /\ pending' = AfterSettle(call, FALSE)
      /\ UNCHANGED <<now, calls, callLog>>

----------------------------------------------------------------------------
(* useQueryState(key, { stateKeys }): a subscription to the store through   *)
(* useSelector, with shallowEqual of react-redux as the equality function. *)
(* A selected property is <<v>> when the query state has the value v for   *)
(* it and << >> when it is undefined; selected properties are compared by  *)
(* value, which stands for Object.is.                                      *)

\* the stateKeys of the subscriptions
StateKeySets == { {}, {"fetchMs", "inFlight"} }

\* the subscriptions: <<key, stateKeys>>
Observers == StoreKeys \X StateKeySets

\* queryState[f] as a selected property
Selected(queryState, f) == IF f \in DOMAIN queryState THEN << queryState[f] >> ELSE << >>

\* the selector: {} when there is no query state at key, else data, dataMs and
\* the stateKeys, each one set even when the query state does not have it
Select(state, key, stateKeys) ==
  IF key \notin DOMAIN state THEN NoProps
  ELSE [f \in {"data", "dataMs"} \cup stateKeys |-> Selected(state[key], f)]

\* shallowEqual(a, b) of two objects: as many own properties in a as in b, and
\* every own property of a is one of b with the same value
ShallowEqual(a, b) ==
  /\ Cardinality(DOMAIN a) = Cardinality(DOMAIN b)
  /\ \A f \in DOMAIN a : f \in DOMAIN b /\ a[f] = b[f]

\* a subscription before any store update: the state selected at the first
\* render
Subscribed(state, o) == [selected |-> Select(state, o[1], o[2]), notified |-> FALSE]

\* what useSelector does with each subscription after a step: select from the
\* new state, and rerender when it is not equal to the state selected before
Observe(obs, after) ==
  [o \in Observers |->
     LET selected == Select(after, o[1], o[2])
     IN  IF ShallowEqual(selected, obs[o].selected)
         THEN [obs[o] EXCEPT !.notified = FALSE]
         ELSE [selected |-> selected, notified |-> TRUE]]

----------------------------------------------------------------------------
(* useQuery(key, fetcher, options) in one component.  The key and the      *)
(* fetcher do not change; the effect runs at mount, when refetchKey        *)
(* changes and, with redefineFetcher, when the interval timer has fired.   *)
(* Each run of the effect that reaches doQuery() makes a closure doQuery,  *)
(* called a loop here; a run caused by the timer of a loop continues that  *)
(* loop.                                                                   *)

PollKey == "k"
PollDedupeMs == 1

\* the options of useQuery that vary: every intervalMs and redefineFetcher
\* (which is read only when intervalMs is positive), with at most one of
\* noRefetch, dedupe and catchError away from its default
HookOptions ==
  { o \in [intervalMs : {0, 1}, redefineFetcher : BOOLEAN, noRefetch : BOOLEAN,
           noRefetchMs : {0, 1}, dedupe : BOOLEAN, catchError : BOOLEAN] :
      /\ o.intervalMs = 0 => ~o.redefineFetcher
      /\ ~o.noRefetch => o.noRefetchMs = 0
      /\ o.noRefetch => ~o.dedupe /\ o.catchError
      /\ o.dedupe => o.catchError }

DefaultHookOptions ==
  [intervalMs |-> 0, redefineFetcher |-> FALSE, noRefetch |-> FALSE,
   noRefetchMs |-> 0, dedupe |-> FALSE, catchError |-> TRUE]

\* a loop: state is idle, fetching (doQuery awaits query), waiting (its timer
\* is set) or ended; requests holds the ids of its requests in flight, queries
\* counts its calls of query, active tells that since it started refetchKey
\* has not changed and the component has not unmounted
NewLoop == [state |-> "idle", requests |-> {}, queries |-> 0, active |-> TRUE]

\* mounted: "no" before the mount, "yes", "gone" after the unmount; ref:
\* intervalTimeoutIdRef.current (0: undefined); timers: the timeouts that are
\* set, each with its id, the loop whose doQuery set it and the time it is due;
\* acted: the loop whose doQuery ran in the last step (0: none); trigger: what
\* ran the effect in the last step
NoHook ==
  [mounted |-> "no", options |-> DefaultHookOptions, refetchKey |-> 0, ref |-> 0,
   nextTimer |-> 1, timers |-> {}, loops |-> << >>, acted |-> 0, trigger |-> "none"]

\* clearTimeout(intervalTimeoutIdRef.current)
ClearTimeout(h) == [h EXCEPT !.timers = {t \in @ : t.id # h.ref}]

\* NoRefetchReturn with < in place of <=
NoRefetchReturnBelow(h, state) ==
  LET queryState == Select(state, PollKey, {})
  IN  /\ "data" \in DOMAIN queryState /\ queryState["data"] # << >>
      /\ h.options.noRefetch
      /\ \/ h.options.noRefetchMs <= 0
         \/ queryState["dataMs"] = << >>
         \/ DateNow - queryState["dataMs"][1] < h.options.noRefetchMs

\* "Should we return early?": queryState.data && noRefetch, and noRefetchMs is
\* not positive, or dataMs is not a number, or no more than noRefetchMs ms have
\* passed since dataMs
NoRefetchReturn(h, state) ==
  LET queryState == Select(state, PollKey, {})
  IN  /\ "data" \in DOMAIN queryState /\ queryState["data"] # << >>
      /\ h.options.noRefetch
      /\ \/ h.options.noRefetchMs <= 0
         \/ queryState["dataMs"] = << >>
         \/ DateNow - queryState["dataMs"][1] <= h.options.noRefetchMs

\* AfterQuery that sets the timeout also when query has thrown
AfterQueryThrown(h, l, ret) ==
  IF h.options.intervalMs <= 0
  THEN [h EXCEPT !.loops[l].state = "ended"]
  ELSE [h EXCEPT !.ref = h.nextTimer,
                 !.nextTimer = @ + 1,
                 !.timers = @ \cup {[id |-> h.nextTimer, loop |-> l,
                                     due |-> now + h.options.intervalMs]},
                 !.loops[l].state = "waiting"]

\* doQuery of loop l after "await query(...)" has ended with ret: it ends when
\* query has thrown or intervalMs is not positive, else it sets the timeout
AfterQuery(h, l, ret) ==
  IF ret.kind = "throw" \/ h.options.intervalMs <= 0
  THEN [h EXCEPT !.loops[l].state = "ended"]
  ELSE [h EXCEPT !.ref = h.nextTimer,
                 !.nextTimer = @ + 1,
                 !.timers = @ \cup {[id |-> h.nextTimer, loop |-> l,
                                     due |-> now + h.options.intervalMs]},
                 !.loops[l].state = "waiting"]

\* Started setting the timeout when query is called, not when it has ended
StartedWithTimer(h, l, step) ==
  IF step.fetcher
  THEN [AfterQuery(h, l, Returned(Undefined))
          EXCEPT !.loops[l].state = "fetching",
                 !.loops[l].requests = @ \cup {step.call.requestId}]
  ELSE AfterQuery(h, l, step.ret)

\* doQuery of loop l after the synchronous part of query (step): it awaits the
\* request, or goes on at once when the call was deduped
Started(h, l, step) ==
  IF step.fetcher
  THEN [h EXCEPT !.loops[l].state = "fetching",
                 !.loops[l].requests = @ \cup {step.call.requestId}]
  ELSE AfterQuery(h, l, step.ret)

\* doQuery() of loop l, up to the await
DoQuery(h, l) ==
  /\ Query(PollKey, h.options.dedupe, PollDedupeMs, MaxPollCalls)
  /\ hook' = Started([h EXCEPT !.acted = l, !.loops[l].queries = @ + 1], l, last')

\* the body of the effect, for loop l
Effect(h, l, trigger) ==
  LET cleared == [ClearTimeout(h) EXCEPT !.trigger = trigger]
  IN  IF NoRefetchReturn(cleared, store)
      THEN /\ hook' = [cleared EXCEPT !.loops[l].state = "ended", !.acted = l]
           /\ last' = Step("effect")
           /\ UNCHANGED <<now, fetchStateByKey, store, pending, calls, callLog>>
      ELSE DoQuery(cleared, l)

\* the loops after refetchKey has changed or the component has unmounted
Retired(loops) == [i \in 1..Len(loops) |-> [loops[i] EXCEPT !.active = FALSE]]

\* the loop that awaits the request of call
Owner(h, call) == CHOOSE l \in 1..Len(h.loops) : call.requestId \in h.loops[l].requests

\* the hook after the request of call has completed (step): the doQuery that
\* awaited it goes on
Settled(h, call, step) ==
  LET l == Owner(h, call)
  IN  AfterQuery([h EXCEPT !.loops[l].requests = @ \ {call.requestId},
                           !.acted = l, !.trigger = "none"],
                 l, step.ret)

----------------------------------------------------------------------------
(* The steps of the system *)

\* the options <<updater, saveStaleResponse, catchError>> of a call
QueryOptions == (Updaters \cup {NoUpdater}) \X BOOLEAN \X BOOLEAN

\* updater and saveStaleResponse are read in saveData only: a call whose
\* response is saved as error, or whose fetcher rejects, is made with either
\* value of saveStaleResponse and no updater, and one whose response is null or
\* undefined with the defaults of both
OptionsFor(kind) ==
  CASE kind = "data" -> QueryOptions
    [] kind \in {"error", "reject"} -> {NoUpdater} \X BOOLEAN \X BOOLEAN
    [] OTHER -> {NoUpdater} \X {FALSE} \X BOOLEAN

\* a call of query without dedupe
QueryCall ==
  /\ \E key \in Keys : Query(key, FALSE, 0, MaxCalls)
  /\ UNCHANGED <<observers, hook, arrays>>

FetcherResolves ==
  /\ \E call \in pending, response \in Responses :
       \E o \in OptionsFor(Classify(response).kind) :
         Resolve(call, o[1], o[2], o[3], response)
  /\ UNCHANGED <<observers, hook, arrays>>

FetcherRejects ==
  /\ \E call \in pending, e \in Rejections, o \in OptionsFor("reject") :
       Reject(call, o[1], o[2], o[3], e)
  /\ UNCHANGED <<observers, hook, arrays>>

\* time passes
Advance(maxTime) ==
  /\ now < maxTime
  /\ now' = now + 1
  /\ last' = Step("tick")
  /\ UNCHANGED <<fetchStateByKey, store, pending, calls, callLog>>

Tick == Advance(MaxTime) /\ UNCHANGED <<observers, hook, arrays>>

Init ==
  /\ now = 1
  /\ fetchStateByKey = NoProps
  /\ store = NoProps
  /\ pending = {}
  /\ last = Step("init")
  /\ calls = 0
  /\ callLog = [k \in StoreKeys |-> {}]
  /\ observers = [o \in Observers |-> Subscribed(NoProps, o)]
  /\ hook = NoHook
  /\ arrays = NoArrays

\* calls without dedupe, every kind of completion
Next == QueryCall \/ FetcherResolves \/ FetcherRejects \/ Tick

Spec == Init /\ [][Next]_vars

----------------------------------------------------------------------------
(* Calls with and without dedupe; the fetchers return data or throw, the   *)
(* other options have their default values.                               *)

DedupeCall ==
  /\ \E key \in Keys, dedupeMs \in DedupeMsSet : Query(key, TRUE, dedupeMs, MaxDedupeCalls)
  /\ UNCHANGED <<observers, hook, arrays>>

PlainCall ==
  /\ \E key \in Keys : Query(key, FALSE, 0, MaxDedupeCalls)
  /\ UNCHANGED <<observers, hook, arrays>>

FetcherReturnsData ==
  /\ \E call \in pending : Resolve(call, NoUpdater, FALSE, TRUE, Obj("A", "none"))
  /\ UNCHANGED <<observers, hook, arrays>>

FetcherThrows ==
  /\ \E call \in pending : Reject(call, NoUpdater, FALSE, TRUE, Obj("E", "none"))
  /\ UNCHANGED <<observers, hook, arrays>>

TickDedupe == Advance(MaxDedupeTime) /\ UNCHANGED <<observers, hook, arrays>>

NextDedupe ==
  DedupeCall \/ PlainCall \/ FetcherReturnsData \/ FetcherThrows \/ TickDedupe

SpecDedupe == Init /\ [][NextDedupe]_vars

----------------------------------------------------------------------------
(* The store with two keys and subscriptions: calls of query, with and      *)
(* without updater, and update actions dispatched by the application.       *)

\* what the fetchers resolve to
StoreResponses == { Obj("A", "none"), Obj("R", "B") }

StoreQueryCall ==
  /\ \E key \in StoreKeys : Query(key, FALSE, 0, MaxStoreCalls)
  /\ observers' = Observe(observers, store')
  /\ UNCHANGED <<hook, arrays>>

StoreFetcherResolves ==
  /\ \E call \in pending, response \in StoreResponses, updater \in Updaters \cup {NoUpdater} :
       Resolve(call, updater, FALSE, TRUE, response)
  /\ observers' = Observe(observers, store')
  /\ UNCHANGED <<hook, arrays>>

\* dispatch(update({ key, updater, newData }))
DispatchUpdate ==
  /\ calls < MaxStoreCalls
  /\ calls' = calls + 1
  /\ \E key \in StoreKeys, updater \in Updaters, newData \in StoreResponses :
       LET events == << update(key, updater, newData) >>
       IN  /\ store' = DispatchAll(store, events)
           /\ last' = [Step("update") EXCEPT !.call = [NoCall EXCEPT !.key = key],
                           !.options = <<updater, FALSE, TRUE>>,
                           !.settled = newData, !.events = events]
  /\ observers' = Observe(observers, store')
  /\ UNCHANGED <<now, fetchStateByKey, pending, callLog, hook, arrays>>

\* dispatch(save({ key, data }))
DispatchSave ==
  /\ calls < MaxStoreCalls
  /\ calls' = calls + 1
  /\ \E key \in StoreKeys, data \in StoreResponses :
       LET events == << save(key, data) >>
       IN  /\ store' = DispatchAll(store, events)
           /\ last' = [Step("save") EXCEPT !.call = [NoCall EXCEPT !.key = key],
                           !.settled = data, !.events = events]
  /\ observers' = Observe(observers, store')
  /\ UNCHANGED <<now, fetchStateByKey, pending, callLog, hook, arrays>>

TickStore ==
  /\ Advance(MaxStoreTime)
  /\ observers' = Observe(observers, store')
  /\ UNCHANGED <<hook, arrays>>

NextStore ==
  StoreQueryCall \/ StoreFetcherResolves \/ DispatchUpdate \/ DispatchSave \/ TickStore

SpecStore == Init /\ [][NextStore]_vars

----------------------------------------------------------------------------
(* Calls of query with dedupe on two keys; the fetchers return data, which  *)
(* is saved with or without updater, or throw.                              *)

KeysCall ==
  /\ \E key \in StoreKeys, dedupeMs \in DedupeMsSet : Query(key, TRUE, dedupeMs, MaxKeysCalls)
  /\ UNCHANGED <<observers, hook, arrays>>

KeysFetcherResolves ==
  /\ \E call \in pending, updater \in Updaters \cup {NoUpdater} :
       Resolve(call, updater, FALSE, TRUE, Obj("A", "none"))
  /\ UNCHANGED <<observers, hook, arrays>>

KeysFetcherRejects ==
  /\ \E call \in pending : Reject(call, NoUpdater, FALSE, TRUE, Obj("E", "none"))
  /\ UNCHANGED <<observers, hook, arrays>>

TickKeys == Advance(MaxKeysTime) /\ UNCHANGED <<observers, hook, arrays>>

NextKeys == KeysCall \/ KeysFetcherResolves \/ KeysFetcherRejects \/ TickKeys

SpecKeys == Init /\ [][NextKeys]_vars

----------------------------------------------------------------------------
(* Calls of query on one key whose updater merges the fetched data into    *)
(* the data at the key.                                                    *)

\* what the fetchers resolve to
MergeResponses == { Obj("A", "none"), Obj("B", "none") }

MergeCall ==
  /\ \E key \in Keys : Query(key, FALSE, 0, MaxMergeCalls)
  /\ UNCHANGED <<observers, hook, arrays>>

MergeFetcherResolves ==
  /\ \E call \in pending, response \in MergeResponses, saveStaleResponse \in BOOLEAN :
       Resolve(call, "merge", saveStaleResponse, TRUE, response)
  /\ UNCHANGED <<observers, hook, arrays>>

TickMerge == Advance(MaxMergeTime) /\ UNCHANGED <<observers, hook, arrays>>

NextMerge == MergeCall \/ MergeFetcherResolves \/ TickMerge

SpecMerge == Init /\ [][NextMerge]_vars

----------------------------------------------------------------------------
(* Calls of query on one key, with the default options, whose fetchers      *)
(* resolve to a payload that tells when the fetch has started, or reject.   *)

\* what the fetcher of a call that starts at fetchMonoMs resolves to
PayloadNames == << "P1", "P2", "P3", "P4", "P5" >>
Payload(fetchMonoMs) == Obj(PayloadNames[fetchMonoMs], "none")

OrderCall ==
  /\ \E key \in Keys : Query(key, FALSE, 0, MaxOrderCalls)
  /\ UNCHANGED <<observers, hook, arrays>>

OrderFetcherResolves ==
  /\ \E call \in pending : Resolve(call, NoUpdater, FALSE, TRUE, Payload(call.fetchMonoMs))
  /\ UNCHANGED <<observers, hook, arrays>>

OrderFetcherRejects ==
  /\ \E call \in pending : Reject(call, NoUpdater, FALSE, TRUE, Obj("E", "none"))
  /\ UNCHANGED <<observers, hook, arrays>>

TickOrder == Advance(MaxOrderTime) /\ UNCHANGED <<observers, hook, arrays>>

NextOrder == OrderCall \/ OrderFetcherResolves \/ OrderFetcherRejects \/ TickOrder

SpecOrder == Init /\ [][NextOrder]_vars

----------------------------------------------------------------------------
(* Calls of query on two keys whose fetchers resolve or reject, with        *)
(* catchError true or false; every fetcher that was called settles.  The   *)
(* clock stands still: the requests of a key differ in their counter.       *)

SettleCall ==
  /\ \E key \in StoreKeys : Query(key, FALSE, 0, MaxSettleCalls)
  /\ UNCHANGED <<observers, hook, arrays>>

SettleFetcherResolves ==
  /\ \E call \in pending : Resolve(call, NoUpdater, FALSE, TRUE, Obj("A", "none"))
  /\ UNCHANGED <<observers, hook, arrays>>

SettleFetcherRejects ==
  /\ \E call \in pending, catchError \in BOOLEAN :
       Reject(call, NoUpdater, FALSE, catchError, Obj("E", "none"))
  /\ UNCHANGED <<observers, hook, arrays>>

NextSettle == SettleCall \/ SettleFetcherResolves \/ SettleFetcherRejects

SpecSettle == Init /\ [][NextSettle]_vars

\* await fetcher() returns or throws for every call that is in flight
SpecSettleLive ==
  SpecSettle /\ WF_vars(SettleFetcherResolves \/ SettleFetcherRejects)

----------------------------------------------------------------------------
(* Calls of query on two keys, with the identity of the inFlight arrays:    *)
(* the fetchers resolve to data or to null, or reject.                      *)

CopyResponses == { Obj("A", "none"), Null }

CopyCall ==
  /\ \E key \in StoreKeys, dedupe \in BOOLEAN : Query(key, dedupe, 0, MaxCopyCalls)
  /\ arrays' = IF last'.fetcher THEN StartArrays(arrays, last'.call.key, now) ELSE arrays
  /\ UNCHANGED <<observers, hook>>

CopyFetcherResolves ==
  /\ \E call \in pending, response \in CopyResponses :
       /\ Resolve(call, NoUpdater, FALSE, TRUE, response)
       /\ arrays' = EndArrays(arrays, call.key, call.requestId, last'.events # << >>)
  /\ UNCHANGED <<observers, hook>>

CopyFetcherRejects ==
  /\ \E call \in pending :
       /\ Reject(call, NoUpdater, FALSE, TRUE, Obj("E", "none"))
       /\ arrays' = EndArrays(arrays, call.key, call.requestId, last'.events # << >>)
  /\ UNCHANGED <<observers, hook>>

TickCopy == Advance(MaxCopyTime) /\ UNCHANGED <<observers, hook, arrays>>

NextCopy == CopyCall \/ CopyFetcherResolves \/ CopyFetcherRejects \/ TickCopy

SpecCopy == Init /\ [][NextCopy]_vars

----------------------------------------------------------------------------
(* A component that calls useQuery: mount, change of refetchKey, unmount,   *)
(* timers and the completions of the requests.  The fetcher resolves to    *)
(* data or rejects.                                                        *)

Mount ==
  /\ hook.mounted = "no"
  /\ \E o \in HookOptions :
       Effect([hook EXCEPT !.mounted = "yes", !.options = o, !.loops = << NewLoop >>],
              1, "mount")
  /\ UNCHANGED <<observers, arrays>>

\* the component rerenders with a new refetchKey
Refetch ==
  /\ hook.mounted = "yes"
  /\ hook.refetchKey < MaxRestarts
  /\ Effect([hook EXCEPT !.refetchKey = @ + 1, !.loops = Append(Retired(@), NewLoop)],
            Len(hook.loops) + 1, "refetch")
  /\ UNCHANGED <<observers, arrays>>

Unmount ==
  /\ hook.mounted = "yes"
  /\ hook' = [ClearTimeout(hook) EXCEPT !.mounted = "gone", !.loops = Retired(@),
                                        !.acted = 0, !.trigger = "none"]
  /\ last' = Step("unmount")
  /\ UNCHANGED <<now, fetchStateByKey, store, pending, calls, callLog, observers, arrays>>

\* the callback of a timeout runs
TimerFires ==
  /\ \E t \in hook.timers :
       /\ now >= t.due
       /\ LET h == [hook EXCEPT !.timers = @ \ {t}, !.trigger = "none"]
          IN  IF ~h.options.redefineFetcher
              THEN DoQuery(h, t.loop)
              ELSE IF h.mounted = "yes"
              THEN Effect(h, t.loop, "interval")
              ELSE /\ hook' = [h EXCEPT !.loops[t.loop].state = "ended", !.acted = 0]
                   /\ last' = Step("timer")
                   /\ UNCHANGED <<now, fetchStateByKey, store, pending, calls, callLog>>
  /\ UNCHANGED <<observers, arrays>>

PollResolves ==
  /\ \E call \in pending :
       /\ Resolve(call, NoUpdater, FALSE, hook.options.catchError, Obj("A", "none"))
       /\ hook' = Settled(hook, call, last')
  /\ UNCHANGED <<observers, arrays>>

PollRejects ==
  /\ \E call \in pending :
       /\ Reject(call, NoUpdater, FALSE, hook.options.catchError, Obj("E", "none"))
       /\ hook' = Settled(hook, call, last')
  /\ UNCHANGED <<observers, arrays>>

TickPoll ==
  /\ Advance(MaxPollTime)
  /\ hook' = [hook EXCEPT !.acted = 0, !.trigger = "none"]
  /\ UNCHANGED <<observers, arrays>>

NextPoll ==
  Mount \/ Refetch \/ Unmount \/ TimerFires \/ PollResolves \/ PollRejects \/ TickPoll

SpecPoll == Init /\ [][NextPoll]_vars

\* timers fire, fetchers settle and time passes
SpecPollLive ==
  /\ SpecPoll
  /\ WF_vars(TimerFires)
  /\ WF_vars(PollResolves \/ PollRejects)
  /\ WF_vars(TickPoll)

----------------------------------------------------------------------------
(* Properties *)

\* the query state stored at key, {} when there is none
Entry(key) == StateAt(store, key)

\* the fields of a query state among the given ones
Only(queryState, fields) == [f \in (DOMAIN queryState) \cap fields |-> queryState[f]]

\* the response is one that query saves as data
IsDataResponse(r) ==
  /\ r.kind = "object"
  /\ r.qd \notin {"null", "undefined"}

\* the data handed to the store by a sequence of dispatched actions: the data
\* field of a query-state action, or the newData of an update action
SavedData(events) ==
  { events[i].payload.state.data :
      i \in { j \in 1..Len(events) :
                /\ events[j].type = "REACT_REDUX_QUERY_UPDATE_QUERY_STATE"
                /\ "data" \in DOMAIN events[j].payload.state } }
  \cup
  { events[i].payload.newData :
      i \in { j \in 1..Len(events) : events[j].type = "REACT_REDUX_QUERY_UPDATE_DATA" } }

\* the errors handed to the store by a sequence of dispatched actions
SavedErrors(events) ==
  { events[i].payload.state.error :
      i \in { j \in 1..Len(events) :
                /\ events[j].type = "REACT_REDUX_QUERY_UPDATE_QUERY_STATE"
                /\ "error" \in DOMAIN events[j].payload.state } }

EarlierWithin(key, w) ==
  { e \in callLog[key] : e.dedupeMs = w /\ now - e.at <= w }

\* C2 as stated: of two calls with dedupe = true and the same window w made at
\* most w ms apart, exactly one calls the fetcher, and the later one returns
\* undefined.
C2_ExactlyOneOfTwoFetches ==
  [][(last'.op = "query" /\ last'.dedupe)
     => \A e \in EarlierWithin(last'.call.key, last'.dedupeMs) :
          /\ e.fetcher # last'.fetcher
          /\ last'.ret = Returned(Undefined)]_vars

\* C2 amended: of two calls with dedupe = true and the same window w made at
\* most w ms apart, if the earlier one called the fetcher then the later one
\* does not call it and returns undefined.
C2_LaterCallDeduped ==
  [][(last'.op = "query" /\ last'.dedupe)
     => \A e \in EarlierWithin(last'.call.key, last'.dedupeMs) :
          e.fetcher => (~last'.fetcher /\ last'.ret = Returned(Undefined))]_vars

\* a call was deduped by an earlier call with the same window that called the
\* fetcher some milliseconds before it
C2_Witness ==
  /\ last.op = "query" /\ last.dedupe /\ ~last.fetcher /\ last.ret = Returned(Undefined)
  /\ \E e1, e2 \in callLog[last.call.key] :
       /\ e1.fetcher /\ ~e2.fetcher
       /\ e1.dedupeMs = last.dedupeMs /\ e2.dedupeMs = last.dedupeMs
       /\ e2.at = now /\ e1.at < e2.at /\ e2.at - e1.at <= e1.dedupeMs

\* C3: a deduped call calls no fetcher, dispatches nothing, leaves the
\* registry (last start time and in-flight requests of every key) and the
\* store as they are, and returns undefined.
C3_DedupedCallHasNoEffect ==
  [][( /\ last'.op = "query"
       /\ last'.dedupe
       /\ last'.call.key \in DOMAIN fetchStateByKey
       /\ now - fetchStateByKey[last'.call.key].fetchMonoMs <= last'.dedupeMs )
     => /\ ~last'.fetcher
        /\ last'.events = << >>
        /\ fetchStateByKey' = fetchStateByKey
        /\ store' = store
        /\ pending' = pending
        /\ last'.ret = Returned(Undefined)]_vars

\* a call was deduped while a request for its key was in flight
C3_Witness ==
  /\ last.op = "query" /\ last.dedupe /\ ~last.fetcher /\ last.ret = Returned(Undefined)
  /\ fetchStateByKey[last.call.key].inFlight # << >>
  /\ pending # {}

C5_RejectionAlwaysRecorded ==
  last.op = "reject" =>
    /\ last.ret.kind \in {"return", "throw"}
    /\ Len(last.events) = 1
    /\ last.events[1].type = "REACT_REDUX_QUERY_UPDATE_QUERY_STATE"
    /\ last.events[1].payload.key = last.call.key
    /\ DOMAIN last.events[1].payload.state = {"error", "errorMs", "inFlight"}
    /\ last.events[1].payload.state.errorMs = DateNow
    /\ last.events[1].payload.state.inFlight = fetchStateByKey[last.call.key].inFlight
    /\ ~HasId(last.events[1].payload.state.inFlight, last.call.requestId)
    /\ Field(Entry(last.call.key), "error") = last.events[1].payload.state.error
    /\ Field(Entry(last.call.key), "errorMs") = DateNow
    /\ Field(Entry(last.call.key), "inFlight") = last.events[1].payload.state.inFlight

\* query, called with catchError = false, has thrown the fetcher's error, and
\* the error is in the store
C5_Witness ==
  /\ last.op = "reject"
  /\ ~last.options[3]
  /\ last.ret = Thrown(Obj("E", "none"))
  /\ Field(Entry(last.call.key), "error") = Obj("E", "none")
  /\ Field(Entry(last.call.key), "errorMs") = DateNow

\* C6: when the fetcher rejects with e, query returns undefined if catchError
\* is true and throws e itself if catchError is false.
C6_RethrowsOriginalError ==
  last.op = "reject" =>
    last.ret = IF last.options[3] THEN Returned(Undefined) ELSE Thrown(last.settled)

C8_ReturnsRawResponse ==
  last.op = "resolve" => last.ret = Returned(last.settled)

\* query has returned a response with queryData while the store holds the
\* queryData
C8_Witness ==
  /\ last.op = "resolve"
  /\ last.ret = Returned(Obj("R", "B"))
  /\ Field(Entry(last.call.key), "data") = Obj("B", "none")

\* C9: a null or undefined response leaves data, dataMs, error, errorMs and
\* goodFetchMonoMs at the key as they were.
C9_DiscardKeepsDataAndError ==
  [][(last'.op = "resolve" /\ last'.settled \in {Null, Undefined})
     => LET fields == {"data", "dataMs", "error", "errorMs", "goodFetchMonoMs"}
        IN  Only(StateAt(store', last'.call.key), fields)
              = Only(Entry(last'.call.key), fields)]_vars

\* the fetcher has resolved to null at a key that holds data
C9_Witness ==
  /\ last.op = "resolve"
  /\ last.settled = Null
  /\ {"data", "dataMs", "goodFetchMonoMs"} \subseteq DOMAIN Entry(last.call.key)

\* C10: a data response v of a call without updater whose start time is not
\* below the goodFetchMonoMs stored at the key puts v, the completion time and
\* the call's start time into data, dataMs and goodFetchMonoMs, and the stored
\* inFlight does not hold the request's id.
C10_FreshDataWritten ==
  [][( /\ last'.op = "resolve"
       /\ last'.options[1] = NoUpdater
       /\ IsDataResponse(last'.settled)
       /\ \/ "goodFetchMonoMs" \notin DOMAIN Entry(last'.call.key)
          \/ last'.call.fetchMonoMs >= Entry(last'.call.key).goodFetchMonoMs )
     => LET after == StateAt(store', last'.call.key)
            r == last'.settled
            v == IF r.qd = "none" THEN r ELSE Obj(r.qd, "none")
        IN  /\ {"data", "dataMs", "goodFetchMonoMs", "inFlight"} \subseteq DOMAIN after
            /\ after.data = v
            /\ after.dataMs = DateNow
            /\ after.goodFetchMonoMs = last'.call.fetchMonoMs
            /\ ~HasId(after.inFlight, last'.call.requestId)]_vars

\* the response of a fetch started at the millisecond of the fetch that wrote
\* the data before has replaced that data
C10_Witness ==
  /\ last.op = "resolve"
  /\ last.options[1] = NoUpdater
  /\ last.call.overtaken
  /\ last.settled = Obj("R", "B")
  /\ {"data", "dataMs", "goodFetchMonoMs"} \subseteq DOMAIN Entry(last.call.key)
  /\ Entry(last.call.key).data = Obj("B", "none")
  /\ Entry(last.call.key).goodFetchMonoMs = last.call.fetchMonoMs
  /\ Entry(last.call.key).dataMs = DateNow

\* the step was an update action, or the completion of a query call with a data
\* response and an updater, whose updater returned the given value
UpdaterReturned(step, state, ret) ==
  /\ \/ step.op = "update"
     \/ step.op = "resolve" /\ step.options[1] # NoUpdater /\ IsDataResponse(step.settled)
  /\ ApplyUpdater(step.options[1],
                  Field(StateAt(state, step.call.key), "data"),
                  step.settled) = ret

\* C11: when the updater returns undefined, in an update action dispatched by
\* the application or in the completion of a query call, the data at the key
\* stays as it was and the update action leaves the whole query branch as it
\* was: after a dispatched update the branch is the one before it, after a
\* completion it is the one the completion's first action alone produces.
C11_UndefinedIsNoop ==
  [][UpdaterReturned(last', store, Undefined)
     => /\ Only(StateAt(store', last'.call.key), {"data"})
             = Only(Entry(last'.call.key), {"data"})
        /\ last'.op = "update" => store' = store
        /\ last'.op = "resolve" => store' = DispatchAll(store, << last'.events[1] >>)]_vars

\* an update action whose updater returned undefined was dispatched at a key
\* that holds data
C11_Witness ==
  /\ last.op = "update"
  /\ last.options[1] = "keep"
  /\ "data" \in DOMAIN Entry(last.call.key)

\* C12: when the updater returns null the key is removed from the query
\* branch, and the query states of the other keys stay as they were.
C12_NullRemovesKey ==
  [][UpdaterReturned(last', store, Null)
     => /\ last'.call.key \notin DOMAIN store'
        /\ \A k \in StoreKeys \ {last'.call.key} :
             /\ k \in DOMAIN store' <=> k \in DOMAIN store
             /\ StateAt(store', k) = StateAt(store, k)]_vars

\* the completion of a query call whose updater returned null has removed its
\* key, and the other key still holds its data
C12_Witness ==
  /\ last.op = "resolve"
  /\ last.options[1] = "remove"
  /\ last.call.key \notin DOMAIN store
  /\ \E k \in StoreKeys \ {last.call.key} : "data" \in DOMAIN Entry(k)

\* C13 as stated: after the completion of a query call with a data response,
\* saveStaleResponse = false and an updater that returns a value d, the data at
\* the key is d and goodFetchMonoMs at the key is the start time of the call.
C13_UpdaterValueWritten ==
  [][( /\ last'.op = "resolve"
       /\ ~last'.options[2]
       /\ last'.options[1] # NoUpdater
       /\ IsDataResponse(last'.settled)
       /\ ApplyUpdater(last'.options[1], Field(Entry(last'.call.key), "data"),
                       IF last'.settled.qd = "none" THEN last'.settled
                       ELSE Obj(last'.settled.qd, "none")).kind = "object" )
     => LET after == StateAt(store', last'.call.key)
            d == ApplyUpdater(last'.options[1], Field(Entry(last'.call.key), "data"),
                              IF last'.settled.qd = "none" THEN last'.settled
                              ELSE Obj(last'.settled.qd, "none"))
        IN  /\ Field(after, "data") = d
            /\ "goodFetchMonoMs" \in DOMAIN after
            /\ after.goodFetchMonoMs = last'.call.fetchMonoMs]_vars

\* C13 amended: the same, for a call whose start time is not below the
\* goodFetchMonoMs stored at the key when it completes.
C13_FreshUpdaterValueWritten ==
  [][( /\ last'.op = "resolve"
       /\ ~last'.options[2]
       /\ last'.options[1] # NoUpdater
       /\ IsDataResponse(last'.settled)
       /\ ApplyUpdater(last'.options[1], Field(Entry(last'.call.key), "data"),
                       IF last'.settled.qd = "none" THEN last'.settled
                       ELSE Obj(last'.settled.qd, "none")).kind = "object"
       /\ \/ "goodFetchMonoMs" \notin DOMAIN Entry(last'.call.key)
          \/ last'.call.fetchMonoMs >= Entry(last'.call.key).goodFetchMonoMs )
     => LET after == StateAt(store', last'.call.key)
            d == ApplyUpdater(last'.options[1], Field(Entry(last'.call.key), "data"),
                              IF last'.settled.qd = "none" THEN last'.settled
                              ELSE Obj(last'.settled.qd, "none"))
        IN  /\ Field(after, "data") = d
            /\ "goodFetchMonoMs" \in DOMAIN after
            /\ after.goodFetchMonoMs = last'.call.fetchMonoMs]_vars

\* a call started after the call that wrote the data before has completed
\* with an updater, and its value and start time are at the key
C13_Witness ==
  /\ last.op = "resolve"
  /\ last.options[1] = "replace"
  /\ ~last.options[2]
  /\ last.settled = Obj("R", "B")
  /\ last.call.fetchMonoMs = 2
  /\ {"data", "goodFetchMonoMs"} \subseteq DOMAIN Entry(last.call.key)
  /\ Entry(last.call.key).data = Obj("B", "none")
  /\ Entry(last.call.key).goodFetchMonoMs = 2

\* C19: a subscription to key k with the stateKeys S rerenders after a step
\* only if data, dataMs or one of the stateKeys of the query state at k has
\* changed; so the fetch-start action of a query call, the one that creates the
\* query state included, rerenders no subscription whose stateKeys are empty.
C19_NotifiedOnlyOnChange ==
  [][\A o \in Observers :
       observers'[o].notified
         => \E f \in {"data", "dataMs"} \cup o[2] :
              Selected(StateAt(store', o[1]), f) # Selected(StateAt(store, o[1]), f)]_vars

\* the step called query from the doQuery of a loop that existed before it
QueriedAgain(l) ==
  /\ last'.op = "query"
  /\ hook'.acted = l
  /\ l \in 1..Len(hook.loops)

\* C14: once the component has unmounted, no doQuery of its polling calls the
\* fetcher, whether the unmount came while a timer was set or while a fetch
\* was in flight.
C14_NoFetchAfterUnmount ==
  [][~(last'.op = "query" /\ last'.fetcher /\ hook.mounted = "gone")]_vars

\* C15: once refetchKey has changed, no loop started before the change calls
\* query again, whether it was waiting on its timer or had a fetch in flight
\* at the change.
C15_NoQueryByReplacedLoop ==
  [][\A l \in 1..Len(hook.loops) :
       (QueriedAgain(l) /\ hook.mounted = "yes") => hook.loops[l].active]_vars

\* C16: a loop has at most one request in flight, and it calls query again
\* only when its previous call has ended and the timer it set then, intervalMs
\* after that moment, has fired.
C16_OneCallAtATime ==
  [][/\ \A l \in 1..Len(hook'.loops) : Cardinality(hook'.loops[l].requests) <= 1
     /\ \A l \in 1..Len(hook.loops) :
          QueriedAgain(l)
            => /\ hook.loops[l].state = "waiting"
               /\ hook.loops[l].requests = {}
               /\ \E t \in hook.timers :
                    /\ t.loop = l
                    /\ t.due >= 1 + hook.options.intervalMs
                    /\ now >= t.due
                    /\ t \notin hook'.timers]_vars

\* a loop has called query for the third time, its two requests before having
\* completed
C16_Witness ==
  /\ last.op = "query"
  /\ hook.acted = 1
  /\ hook.loops[1].queries = 3
  /\ hook.loops[1].state = "fetching"
  /\ Cardinality(pending) = 1

\* loop l is active and waits on its timer after a call of query that ended
\* without throwing, and the bounds leave room for its next call
WaitingToPoll(l) ==
  /\ l \in 1..Len(hook.loops)
  /\ hook.loops[l].active
  /\ hook.loops[l].state = "waiting"
  /\ hook.options.intervalMs > 0
  /\ calls < MaxPollCalls
  /\ \E t \in hook.timers : t.loop = l /\ t.due <= MaxPollTime

\* loop l has just called query, or is not active any more
CalledAgainOrStopped(l) ==
  /\ l \in 1..Len(hook.loops)
  /\ \/ ~hook.loops[l].active
     \/ hook.acted = l /\ last.op = "query"

\* C17: while the component is mounted with intervalMs > 0 and refetchKey
\* does not change, every call of query by the loop that ends without throwing
\* (data, error response, discarded response, deduped call, caught rejection)
\* is followed by another call of query by the loop.
C17_PollingGoesOn ==
  \A l \in 1..(MaxRestarts + 1) : WaitingToPoll(l) ~> CalledAgainOrStopped(l)

\* C18: the request of a loop that is not active any more (the component has
\* unmounted or refetchKey has changed while it was in flight) dispatches, when
\* it completes, the action of a query call outside polling: the data with
\* dataMs, goodFetchMonoMs and inFlight, or the error with errorMs and
\* inFlight; and the store takes it.
C18_CompletionAfterCancelIsSaved ==
  ( /\ last.op \in {"resolve", "reject"}
    /\ hook.acted \in 1..Len(hook.loops)
    /\ ~hook.loops[hook.acted].active )
  => LET call == last.call
         inFlight == fetchStateByKey[call.key].inFlight
         entry == Entry(call.key)
         expected ==
           IF last.op = "resolve"
           THEN updateQueryStateWith(call.key,
                  [data |-> last.settled, dataMs |-> DateNow,
                   goodFetchMonoMs |-> call.fetchMonoMs, inFlight |-> inFlight], FALSE)
           ELSE updateQueryState(call.key,
                  [error |-> last.settled, errorMs |-> DateNow, inFlight |-> inFlight])
     IN  /\ last.events = << expected >>
         /\ ~HasId(inFlight, call.requestId)
         /\ Selected(entry, "inFlight") = << inFlight >>
         /\ last.op = "reject"
              => /\ Selected(entry, "error") = << last.settled >>
                 /\ Selected(entry, "errorMs") = << DateNow >>
         /\ (last.op = "resolve" /\ ~call.overtaken)
              => /\ Selected(entry, "data") = << last.settled >>
                 /\ Selected(entry, "dataMs") = << DateNow >>
                 /\ Selected(entry, "goodFetchMonoMs") = << call.fetchMonoMs >>

\* the fetch that was in flight when the component unmounted has put its data
\* into the store
C18_Witness ==
  /\ hook.mounted = "gone"
  /\ last.op = "resolve"
  /\ hook.acted = 1
  /\ ~hook.loops[1].active
  /\ hook.options.intervalMs > 0
  /\ Selected(Entry(PollKey), "data") = << Obj("A", "none") >>
  /\ Selected(Entry(PollKey), "dataMs") = << DateNow >>

C21_SaveReplacesDataOnly ==
  [][last'.op = "save"
     => LET key == last'.call.key
            after == StateAt(store', key)
        IN  /\ key \in DOMAIN store'
            /\ DOMAIN after = (DOMAIN Entry(key)) \cup {"data", "dataMs"}
            /\ after.data = last'.settled
            /\ after.dataMs = DateNow
            /\ Omit(after, {"data", "dataMs"}) = Omit(Entry(key), {"data", "dataMs"})
            /\ \A k \in StoreKeys \ {key} :
                 /\ k \in DOMAIN store' <=> k \in DOMAIN store
                 /\ StateAt(store', k) = StateAt(store, k)]_vars

\* a save action has replaced the data a query call had written at the key,
\* whose query state holds fetchMs, goodFetchMonoMs and inFlight as well
C21_Witness ==
  /\ last.op = "save"
  /\ last.settled = Obj("R", "B")
  /\ {"data", "dataMs", "fetchMs", "goodFetchMonoMs", "inFlight"}
       \subseteq DOMAIN Entry(last.call.key)
  /\ Entry(last.call.key).data = Obj("R", "B")
  /\ Entry(last.call.key).goodFetchMonoMs < now

\* the first action of the step is a query-state action that carries a
\* goodFetchMonoMs below the one stored at its key, dispatched with
\* saveStaleResponse = false
StaleEvent(step, state) ==
  /\ step.op = "resolve"
  /\ step.events # << >>
  /\ step.events[1].type = "REACT_REDUX_QUERY_UPDATE_QUERY_STATE"
  /\ "goodFetchMonoMs" \in DOMAIN step.events[1].payload.state
  /\ ~step.options[2]
  /\ "goodFetchMonoMs" \in DOMAIN StateAt(state, step.call.key)
  /\ StateAt(state, step.call.key).goodFetchMonoMs
       > step.events[1].payload.state.goodFetchMonoMs

\* C22: a query-state action that carries a goodFetchMonoMs g, dispatched with
\* saveStaleResponse = false at a key whose stored goodFetchMonoMs is greater
\* than g, leaves data, dataMs and goodFetchMonoMs at the key as they were and
\* writes the other fields it carries (inFlight); where it is the only action
\* of the completion that changes the store, the store after the completion
\* shows it.
C22_StaleEventKeepsData ==
  [][StaleEvent(last', store)
     => LET key == last'.call.key
            event == last'.events[1]
            kept == {"data", "dataMs", "goodFetchMonoMs"}
            after == StateAt(reduce(store, event), key)
        IN  /\ Only(after, kept) = Only(Entry(key), kept)
            /\ "inFlight" \in DOMAIN after
            /\ after.inFlight = event.payload.state.inFlight
            /\ Omit(after, {"inFlight"}) = Omit(Entry(key), {"inFlight"})
            /\ store' = DispatchAll(reduce(store, event), Tail(last'.events))
            /\ (Len(last'.events) = 1 \/ last'.options[1] = "keep")
                 => StateAt(store', key) = after]_vars

\* the data response of a call without updater, started before the call whose
\* data is at the key, has completed: data, dataMs and goodFetchMonoMs are those
\* of the later call and no request is in flight
C22_Witness ==
  /\ last.op = "resolve"
  /\ last.options[1] = NoUpdater
  /\ ~last.options[2]
  /\ last.call.overtaken
  /\ last.settled = Obj("A", "none")
  /\ {"data", "dataMs", "goodFetchMonoMs", "inFlight"} \subseteq DOMAIN Entry(last.call.key)
  /\ Entry(last.call.key).goodFetchMonoMs > last.call.fetchMonoMs
  /\ Entry(last.call.key).data = Obj("B", "none")
  /\ Entry(last.call.key).inFlight = << >>

\* the value query saves as data for a data response: its queryData where it
\* has one, else the response
DataOf(r) == IF r.qd = "none" THEN r ELSE Obj(r.qd, "none")

\* C23 as stated: the completion of a query call with a data response and
\* saveStaleResponse = true puts the response's data, the completion time and
\* the call's start time into data, dataMs and goodFetchMonoMs at the key,
\* whatever goodFetchMonoMs the key held.
C23_StaleDataAlwaysSaved ==
  [][( /\ last'.op = "resolve"
       /\ last'.options[2]
       /\ IsDataResponse(last'.settled) )
     => LET after == StateAt(store', last'.call.key)
        IN  /\ {"data", "dataMs", "goodFetchMonoMs"} \subseteq DOMAIN after
            /\ after.data = DataOf(last'.settled)
            /\ after.dataMs = DateNow
            /\ after.goodFetchMonoMs = last'.call.fetchMonoMs]_vars

\* C23 amended: with saveStaleResponse = true, whatever goodFetchMonoMs the key
\* held, a data response of a call without updater puts its data, the
\* completion time and the call's start time into data, dataMs and
\* goodFetchMonoMs; with an updater that returns a value d the same holds with
\* d as data; with an updater that returns undefined data stays as it was while
\* dataMs and goodFetchMonoMs are written; with an updater that returns null the
\* key is removed.
C23_StaleDataSavedThroughUpdater ==
  [][( /\ last'.op = "resolve"
       /\ last'.options[2]
       /\ IsDataResponse(last'.settled) )
     => LET key == last'.call.key
            after == StateAt(store', key)
            d == IF last'.options[1] = NoUpdater THEN DataOf(last'.settled)
                 ELSE ApplyUpdater(last'.options[1], Field(Entry(key), "data"),
                                   DataOf(last'.settled))
        IN  IF d = Null THEN key \notin DOMAIN store'
            ELSE /\ {"dataMs", "goodFetchMonoMs"} \subseteq DOMAIN after
                 /\ after.dataMs = DateNow
                 /\ after.goodFetchMonoMs = last'.call.fetchMonoMs
                 /\ Field(after, "data")
                      = IF d = Undefined THEN Field(Entry(key), "data") ELSE d]_vars

\* the data of a call with saveStaleResponse = true and no updater, started
\* before the call that had written the data at the key, is at the key, with
\* the call's start time as goodFetchMonoMs
C23_Witness ==
  /\ last.op = "resolve"
  /\ last.options[1] = NoUpdater
  /\ last.options[2]
  /\ last.call.overtaken
  /\ last.settled = Obj("A", "none")
  /\ fetchStateByKey[last.call.key].fetchMonoMs > last.call.fetchMonoMs
  /\ {"data", "dataMs", "goodFetchMonoMs"} \subseteq DOMAIN Entry(last.call.key)
  /\ Entry(last.call.key).data = Obj("A", "none")
  /\ Entry(last.call.key).goodFetchMonoMs = last.call.fetchMonoMs

IsErrorCompletion(step) ==
  \/ step.op = "reject"
  \/ step.op = "resolve" /\ Classify(step.settled).kind = "error"

\* C25 as stated: the completion of a query call with a data response, with or
\* without updater and whatever the updater returns, leaves error and errorMs
\* at the key as they were; a completion that saves an error leaves data, dataMs
\* and goodFetchMonoMs at the key as they were.
C25_OneOfDataAndError ==
  [][LET key == last'.call.key
         after == StateAt(store', key)
     IN  /\ (last'.op = "resolve" /\ IsDataResponse(last'.settled))
              => Only(after, {"error", "errorMs"}) = Only(Entry(key), {"error", "errorMs"})
         /\ IsErrorCompletion(last')
              => Only(after, {"data", "dataMs", "goodFetchMonoMs"})
                   = Only(Entry(key), {"data", "dataMs", "goodFetchMonoMs"})]_vars

\* C25 amended: the same, but for a data response of a call whose updater
\* returns null: that completion removes the key, and with it error and errorMs.
C25_OneOfDataAndErrorOrRemoval ==
  [][LET key == last'.call.key
         after == StateAt(store', key)
     IN  /\ (last'.op = "resolve" /\ IsDataResponse(last'.settled))
              => IF /\ last'.options[1] # NoUpdater
                    /\ ApplyUpdater(last'.options[1], Field(Entry(key), "data"),
                                    DataOf(last'.settled)) = Null
                 THEN key \notin DOMAIN store'
                 ELSE Only(after, {"error", "errorMs"})
                        = Only(Entry(key), {"error", "errorMs"})
         /\ IsErrorCompletion(last')
              => Only(after, {"data", "dataMs", "goodFetchMonoMs"})
                   = Only(Entry(key), {"data", "dataMs", "goodFetchMonoMs"})]_vars

\* a data response has been merged by an updater into a query state that holds
\* the error of an earlier completion
C25_Witness ==
  /\ last.op = "resolve"
  /\ last.options[1] = "replace"
  /\ last.settled = Obj("R", "B")
  /\ {"data", "dataMs", "error", "errorMs"} \subseteq DOMAIN Entry(last.call.key)
  /\ Entry(last.call.key).data = Obj("B", "none")
  /\ Entry(last.call.key).error = Obj("E", "none")

\* the earlier calls on key that called the fetcher at most w ms before the
\* present time
StartedWithin(key, w) == { e \in callLog[key] : e.fetcher /\ now - e.at <= w }

\* C26: a step of a query call on a key (the dedupe bail-out, the start, the
\* completion with data, with an error, through an updater that merges or
\* removes) leaves the registry entries and the query states of the other keys
\* as they were; a call with dedupe is deduped exactly when a call on its own
\* key has called the fetcher within dedupeMs; and a completion whose start
\* time does not become the goodFetchMonoMs of its key found a greater
\* goodFetchMonoMs at its own key.
C26_KeysAreIndependent ==
  [][last'.op \in {"query", "resolve", "reject"}
     => LET key == last'.call.key
        IN  /\ \A k \in StoreKeys \ {key} :
                 /\ k \in DOMAIN store' <=> k \in DOMAIN store
                 /\ StateAt(store', k) = StateAt(store, k)
                 /\ k \in DOMAIN fetchStateByKey' <=> k \in DOMAIN fetchStateByKey
                 /\ StateAt(fetchStateByKey', k) = StateAt(fetchStateByKey, k)
            /\ (last'.op = "query" /\ last'.dedupe)
                 => (~last'.fetcher <=> StartedWithin(key, last'.dedupeMs) # {})
            /\ ( /\ last'.op = "resolve"
                 /\ key \in DOMAIN store'
                 /\ Field(store'[key], "goodFetchMonoMs") # last'.call.fetchMonoMs )
                 => /\ "goodFetchMonoMs" \in DOMAIN Entry(key)
                    /\ Entry(key).goodFetchMonoMs > last'.call.fetchMonoMs]_vars

\* a call with dedupe has called the fetcher for its key although a call on the
\* other key, whose request is still in flight, had called the fetcher within
\* dedupeMs
C26_Witness ==
  /\ last.op = "query" /\ last.dedupe /\ last.fetcher
  /\ last.dedupeMs = 1
  /\ \E k \in StoreKeys \ {last.call.key} :
       /\ \E e \in callLog[k] : e.fetcher /\ e.at < now /\ now - e.at <= last.dedupeMs
       /\ k \in DOMAIN fetchStateByKey
       /\ fetchStateByKey[k].inFlight # << >>
       /\ k \in DOMAIN store

\* C27: after the start step and after the completion step of a query call
\* that was not deduped, the inFlight of the query state at the key is the
\* inFlight the registry holds for the key.
C27_StoreInFlightIsRegistryInFlight ==
  ( \/ last.op = "query" /\ last.fetcher
    \/ last.op \in {"resolve", "reject"} )
  => /\ "inFlight" \in DOMAIN Entry(last.call.key)
     /\ Entry(last.call.key).inFlight = fetchStateByKey[last.call.key].inFlight

\* C28: when the fetcher resolves to null or undefined, the completion
\* dispatches an action, and afterwards the inFlight of the query state at the
\* key does not hold the id of the finished request.
C28_DiscardUpdatesInFlight ==
  (last.op = "resolve" /\ last.settled \in {Null, Undefined})
  => /\ last.events # << >>
     /\ "inFlight" \in DOMAIN Entry(last.call.key)
     /\ ~HasId(Entry(last.call.key).inFlight, last.call.requestId)

\* the ids of the requests in an inFlight array
Ids(inFlight) == { inFlight[i].id : i \in 1..Len(inFlight) }

\* C29: the ids of the requests in flight for a key are pairwise distinct;
\* the id a call that starts a fetch gives to its request is its start time
\* with the smallest counter c >= 0 for which that id was not in flight, and c
\* is at most the number of requests that were in flight, so that the search
\* tries at most that number plus one candidates.
C29_RequestIdsAreDistinct ==
  /\ \A key \in DOMAIN fetchStateByKey :
       LET inFlight == fetchStateByKey[key].inFlight
       IN  \A i, j \in 1..Len(inFlight) : inFlight[i].id = inFlight[j].id => i = j
  /\ (last.op = "query" /\ last.fetcher)
       => LET inFlight == fetchStateByKey[last.call.key].inFlight
              before == SubSeq(inFlight, 1, Len(inFlight) - 1)
              c == last.call.requestId[2]
          IN  /\ inFlight[Len(inFlight)] = InFlightItem(now, c)
              /\ last.call.requestId = <<now, c>>
              /\ c \in 0..Len(before)
              /\ <<now, c>> \notin Ids(before)
              /\ \A b \in 0..(c - 1) : <<now, b>> \in Ids(before)

\* a call has taken, for its request, the counter 0 that a request completed
\* in the same millisecond had set free, while the request with counter 1 of
\* that millisecond is still in flight
C29_Witness ==
  /\ last.op = "query" /\ last.fetcher
  /\ last.call.requestId = <<now, 0>>
  /\ Ids(fetchStateByKey[last.call.key].inFlight) = {<<now, 0>>, <<now, 1>>}
  /\ fetchStateByKey[last.call.key].inFlight[1].id = <<now, 1>>

\* C30: for every key, the ids in the inFlight the registry holds for the key
\* are, each once, the ids of the query calls on the key that have called the
\* fetcher and whose fetcher has not settled yet, in whatever order the
\* fetchers settle and whether they resolve or reject.
C30_RegistryHoldsOutstandingCalls ==
  \A key \in StoreKeys :
    LET inFlight == InFlightOf(fetchStateByKey, key)
        outstanding == { p \in pending : p.key = key }
    IN  /\ Ids(inFlight) = { p.requestId : p \in outstanding }
        /\ Len(inFlight) = Cardinality(outstanding)
        /\ \A i \in 1..Len(inFlight) : inFlight[i].fetchMonoMs = inFlight[i].id[1]

\* of two requests in flight for a key the one started later has settled, by
\* a rejection, and the registry still holds the earlier one
C30_Witness ==
  /\ last.op = "reject"
  /\ last.call.older # {}
  /\ Ids(InFlightOf(fetchStateByKey, last.call.key)) = last.call.older
  /\ { p.requestId : p \in { q \in pending : q.key = last.call.key } } = last.call.older

\* the fetch-start action of every call that is not deduped writes Date.now()
\* into fetchMs at the key: the monotonic time at which the fetch for the key
\* that started last has started, << >> when none has
LastStart(state, key) ==
  IF key \in DOMAIN state /\ "fetchMs" \in DOMAIN state[key]
  THEN << state[key].fetchMs - (DateNow - now) >>
  ELSE << >>

\* C31: a call with dedupe = true made at time t is skipped exactly when a
\* fetch for its key has started before and t - s <= dedupeMs, for s the start
\* time of the fetch for the key that started last, whether the call that
\* started it had dedupe or not and whether it is in flight, has succeeded or
\* has failed; a call with dedupe = false is never skipped; and s, as the
\* registry holds it, is changed neither by a deduped call nor by a completion.
C31_DedupeRule ==
  [][LET key == last'.call.key
         s == LastStart(store, key)
     IN  /\ (last'.op = "query" /\ last'.dedupe)
              => (~last'.fetcher <=> (s # << >> /\ now - s[1] <= last'.dedupeMs))
         /\ (last'.op = "query" /\ ~last'.dedupe) => last'.fetcher
         /\ (last'.op = "query" /\ last'.fetcher)
              => fetchStateByKey'[key].fetchMonoMs = now
         /\ ( \/ last'.op = "query" /\ ~last'.fetcher
              \/ last'.op \in {"resolve", "reject"} )
              => /\ key \in DOMAIN fetchStateByKey' <=> key \in DOMAIN fetchStateByKey
                 /\ key \in DOMAIN fetchStateByKey
                      => /\ fetchStateByKey'[key].fetchMonoMs = fetchStateByKey[key].fetchMonoMs
                         /\ << fetchStateByKey[key].fetchMonoMs >> = s]_vars

\* a call with dedupe = true has been skipped one millisecond after a call
\* with dedupe = false had started a fetch, which has failed since, while an
\* earlier fetch for the key is still in flight
C31_Witness ==
  /\ last.op = "query" /\ last.dedupe /\ ~last.fetcher
  /\ last.dedupeMs = 1
  /\ \A e \in callLog[last.call.key] : ~e.fetcher
  /\ LastStart(store, last.call.key) = << now - 1 >>
  /\ "error" \in DOMAIN Entry(last.call.key)
  /\ Entry(last.call.key).errorMs = DateNow - 1
  /\ \E p \in pending : p.key = last.call.key /\ p.fetchMonoMs < now - 1

\* C32: the updater of a completion is given the data that is at the key when
\* the completion's update action is reduced, so that the data after the
\* completion holds what the key held and what the fetch brought; when two
\* fetches with updaters on a key complete one after the other, the data holds
\* what each of them brought.
C32_UpdaterReadsStoredData ==
  [][(last'.op = "resolve" /\ last'.options[1] = "merge")
     => LET key == last'.call.key
            before == Field(Entry(key), "data")
            after == Field(StateAt(store', key), "data")
        IN  /\ after = MergeData(before, DataOf(last'.settled))
            /\ Props(after.name) = Props(Spread(before).name) \cup Props(last'.settled.name)]_vars

\* of two fetches in flight at the same time the one that started second has
\* completed last, and the data holds what both brought
C32_Witness ==
  /\ last.op = "resolve"
  /\ last.options[1] = "merge"
  /\ last.call.requestId = <<1, 1>>
  /\ last.settled = Obj("B", "none")
  /\ pending = {}
  /\ Field(Entry(last.call.key), "data") = Obj("AB", "none")

\* C33: the completion of a query call with an updater and a data response
\* dispatches two actions: first the query-state action with dataMs,
\* goodFetchMonoMs and inFlight, then the update action with the updater and
\* the new data; the store after the completion is the store before it with
\* these two actions reduced, one after the other; and each subscription is
\* compared once, with the state after both: one that rerenders has that state
\* selected, one that does not keeps what it had.
C33_TwoEventsInOrder ==
  [][( /\ last'.op = "resolve"
       /\ last'.options[1] # NoUpdater
       /\ IsDataResponse(last'.settled) )
     => LET key == last'.call.key
            events == last'.events
        IN  /\ Len(events) = 2
            /\ events[1] =
                 updateQueryStateWith(key,
                   [dataMs |-> DateNow, goodFetchMonoMs |-> last'.call.fetchMonoMs,
                    inFlight |-> fetchStateByKey'[key].inFlight],
                   last'.options[2])
            /\ events[2] = update(key, last'.options[1], DataOf(last'.settled))
            /\ store' = reduce(reduce(store, events[1]), events[2])
            /\ \A o \in Observers :
                 IF observers'[o].notified
                 THEN observers'[o].selected = Select(store', o[1], o[2])
                 ELSE observers'[o].selected = observers[o].selected]_vars

\* a completion with an updater has replaced the data at a key that held
\* data, and the subscription to data and dataMs of the key has rerendered
C33_Witness ==
  /\ last.op = "resolve"
  /\ last.options[1] = "replace"
  /\ last.settled = Obj("R", "B")
  /\ Len(last.events) = 2
  /\ Field(Entry(last.call.key), "data") = Obj("B", "none")
  /\ observers[<<last.call.key, {}>>].notified
  /\ observers[<<last.call.key, {}>>].selected = Select(store, last.call.key, {})
  /\ \E k \in StoreKeys \ {last.call.key} : "data" \in DOMAIN Entry(k)

\* the greater of two start times, the first of which may be missing
Later(good, fetchMonoMs) ==
  IF good # << >> /\ good[1] > fetchMonoMs THEN good[1] ELSE fetchMonoMs

\* C34: with no updater, no saveStaleResponse and no save or update action
\* from outside, the goodFetchMonoMs at a key is the greatest start time among
\* the fetches for the key that have completed with data, and the data at the
\* key is the payload of a fetch that started then, in whatever order the
\* fetches complete: a completion with data moves goodFetchMonoMs to the later
\* of its start time and the one stored, every other step leaves data and
\* goodFetchMonoMs as they are, and the data is the payload of a fetch started
\* at goodFetchMonoMs.
C34_DataFollowsStartOrder ==
  [][\A key \in Keys :
       LET good == Selected(Entry(key), "goodFetchMonoMs")
           after == StateAt(store', key)
       IN  /\ (last'.op = "resolve" /\ last'.call.key = key)
                => /\ Selected(after, "goodFetchMonoMs")
                        = << Later(good, last'.call.fetchMonoMs) >>
                   /\ Selected(after, "data") = << Payload(after.goodFetchMonoMs) >>
           /\ ~(last'.op = "resolve" /\ last'.call.key = key)
                => /\ Selected(after, "goodFetchMonoMs") = good
                   /\ Selected(after, "data") = Selected(Entry(key), "data")]_vars

\* three fetches have completed with data, the one that started first last
\* and the one that started last first: the data is the payload of the last
C34_Witness ==
  /\ last.op = "resolve"
  /\ last.call.fetchMonoMs = 1
  /\ last.call.overtaken
  /\ pending = {}
  /\ calls = 3
  /\ \A e \in {"error"} : e \notin DOMAIN Entry(last.call.key)
  /\ Entry(last.call.key).fetchMs = 13
  /\ Entry(last.call.key).goodFetchMonoMs = 3
  /\ Entry(last.call.key).data = Payload(3)
  /\ Entry(last.call.key).dataMs = DateNow

\* C35: a step of a call that has saveStaleResponse false and no updater that
\* returns null never lowers and never removes the goodFetchMonoMs of a key,
\* in whatever order the calls start and complete.
C35_GoodFetchNeverDecreases ==
  [][(~last'.options[2] /\ last'.options[1] # "remove")
       => \A key \in StoreKeys :
            LET good == Selected(Entry(key), "goodFetchMonoMs")
                after == Selected(StateAt(store', key), "goodFetchMonoMs")
            IN  good # << >> => (after # << >> /\ after[1] >= good[1])]_vars

\* a call with an updater and saveStaleResponse false completes with data
\* after a call that started later has: goodFetchMonoMs stays at the later start
C35_Witness ==
  /\ last.op = "resolve"
  /\ IsDataResponse(last.settled)
  /\ last.options[1] = "replace"
  /\ ~last.options[2]
  /\ Entry(last.call.key).goodFetchMonoMs > last.call.fetchMonoMs

\* C36: the start of a call writes fetchMs at its key and only the removal of
\* the key takes it away, so a key of a call in flight that has no fetchMs has
\* been removed since the call started, and one that has no dataMs either has
\* had no completion with data since.  The next completion with data, here of
\* a call that has no updater, then writes its data and its start time, also
\* when a call that started later had completed before the key was removed.
C36_RemovalForgetsGoodFetch ==
  [][( /\ last'.op = "resolve"
       /\ IsDataResponse(last'.settled)
       /\ last'.options[1] = NoUpdater
       /\ "fetchMs" \notin DOMAIN Entry(last'.call.key)
       /\ "dataMs" \notin DOMAIN Entry(last'.call.key) )
       => LET after == StateAt(store', last'.call.key)
          IN  /\ Selected(after, "data") = << Spread(DataOf(last'.settled)) >>
              /\ Selected(after, "dataMs") = << DateNow >>
              /\ Selected(after, "goodFetchMonoMs") = << last'.call.fetchMonoMs >>]_vars

\* the key was removed after the last call had started (no fetchMs is left),
\* and the call that started before that one has written its data
C36_Witness ==
  /\ last.op = "resolve"
  /\ last.options = << NoUpdater, FALSE, TRUE >>
  /\ pending = {}
  /\ calls = 2
  /\ last.call.fetchMonoMs < fetchStateByKey[last.call.key].fetchMonoMs
  /\ DOMAIN Entry(last.call.key) = {"data", "dataMs", "goodFetchMonoMs", "inFlight"}
  /\ Entry(last.call.key).data = Spread(DataOf(last.settled))
  /\ Entry(last.call.key).goodFetchMonoMs = last.call.fetchMonoMs

\* no request is in flight in the registry, at any key
RegistryIsEmpty ==
  \A key \in DOMAIN fetchStateByKey : fetchStateByKey[key].inFlight = << >>

\* C37: when every fetcher that was called settles and query is called
\* finitely often, the registry comes to hold no request in flight at any key
\* and stays so, in whatever order the fetchers settle, whether they resolve
\* or reject, and whatever catchError is.
C37_RegistryDrains ==
  <>[](RegistryIsEmpty /\ pending = {})

\* the registry has drained after a rejection with catchError false and
\* completions on both keys
C37_Witness ==
  /\ calls = MaxSettleCalls
  /\ last.op = "reject"
  /\ ~last.options[3]
  /\ DOMAIN fetchStateByKey = StoreKeys
  /\ RegistryIsEmpty
  /\ \E key \in StoreKeys : "data" \in DOMAIN Entry(key)

\* C38: when the fetcher of a polling loop rejects and catchError is false,
\* the error is written to the store, query throws it, the doQuery of the
\* loop ends and no timer of the loop is set; and a loop whose doQuery has
\* ended has no timer set and no request in flight, which are the only two
\* things that run the doQuery of a loop again, so it calls the fetcher no more.
C38_RejectionEndsPolling ==
  /\ ( /\ last.op = "reject"
       /\ hook.options.intervalMs > 0
       /\ ~hook.options.catchError )
       => LET l == hook.acted
          IN  /\ l \in 1..Len(hook.loops)
              /\ Selected(Entry(PollKey), "error") = << Spread(last.settled) >>
              /\ Selected(Entry(PollKey), "errorMs") = << DateNow >>
              /\ last.ret = Thrown(last.settled)
              /\ hook.loops[l].state = "ended"
  /\ \A l \in 1..Len(hook.loops) :
       hook.loops[l].state = "ended"
         => /\ hook.loops[l].requests = {}
            /\ \A t \in hook.timers : t.loop # l
            /\ \A call \in pending : call.requestId \notin hook.loops[l].requests

\* the loop has polled twice: its second fetcher has rejected, and time has
\* passed since with no timer set and no request in flight
C38_Witness ==
  /\ hook.mounted = "yes"
  /\ hook.options.intervalMs > 0
  /\ ~hook.options.catchError
  /\ Len(hook.loops) = 1
  /\ hook.loops[1].state = "ended"
  /\ hook.loops[1].queries = 2
  /\ hook.loops[1].active
  /\ hook.timers = {}
  /\ pending = {}
  /\ last.op = "tick"
  /\ "error" \in DOMAIN Entry(PollKey)
  /\ Entry(PollKey).errorMs < DateNow

\* the request ids that a call may give: a start time and a counter
RequestIds == (1..(MaxOrderTime + 1)) \X (0..MaxOrderCalls)

\* C40: taking a request id out of the requests in flight of a key a second
\* time, or taking out an id that is not among them, gives the requests that
\* the first removal gave, for every key of the registry and every id; and
\* after a completion the id of the completed request is not in the registry,
\* so that removing it again leaves the registry as it is.
C40_RemovalIsIdempotent ==
  /\ \A key \in DOMAIN fetchStateByKey, id \in RequestIds :
       LET inFlight == fetchStateByKey[key].inFlight
           once == WithoutId(inFlight, id)
       IN  /\ WithoutId(once, id) = once
           /\ id \notin Ids(once)
           /\ Ids(once) = Ids(inFlight) \ {id}
           /\ id \notin Ids(inFlight) => once = inFlight
  /\ last.op \in {"resolve", "reject"}
       => LET inFlight == fetchStateByKey[last.call.key].inFlight
          IN  /\ last.call.requestId \notin Ids(inFlight)
              /\ WithoutId(inFlight, last.call.requestId) = inFlight

\* a request has completed while two others of the key stay in flight
C40_Witness ==
  /\ last.op = "resolve"
  /\ Len(fetchStateByKey[last.call.key].inFlight) = 2
  /\ last.call.requestId \in RequestIds
  /\ last.call.requestId \notin Ids(fetchStateByKey[last.call.key].inFlight)
  /\ Cardinality(pending) = 2

\* the step has started a fetch or completed one
TouchesInFlight(step) == (step.op = "query" /\ step.fetcher) \/ step.op \in {"resolve", "reject"}

\* C39: the start of a fetch and its completion each put into the registry an
\* inFlight array that did not exist before, and so is none of the arrays
\* dispatched earlier; the action the step dispatches, if any, carries that
\* array and no other; and no step changes the requests of an array that
\* exists, dispatched or not.
C39_CopyOnWrite ==
  [][/\ Len(arrays'.objs) >= Len(arrays.objs)
     /\ \A i \in 1..Len(arrays.objs) : arrays'.objs[i] = arrays.objs[i]
     /\ arrays.dispatched \subseteq arrays'.dispatched
     /\ TouchesInFlight(last')
          => LET key == last'.call.key
                 n == arrays'.at[key]
             IN  /\ n \notin 1..Len(arrays.objs)
                 /\ n \notin arrays.dispatched
                 /\ arrays'.objs[n] = fetchStateByKey'[key].inFlight
                 /\ arrays'.dispatched \ arrays.dispatched \subseteq {n}
                 /\ last'.events # << >>
                      => /\ n \in arrays'.dispatched
                         /\ \E i \in 1..Len(last'.events) :
                              /\ "state" \in DOMAIN last'.events[i].payload
                              /\ "inFlight" \in DOMAIN last'.events[i].payload.state
                              /\ last'.events[i].payload.state.inFlight = arrays'.objs[n]
     /\ ~TouchesInFlight(last') => arrays' = arrays]_vars

\* a second fetch for a key has started while the first is in flight, and
\* the first has completed: the array dispatched at the first start still
\* holds the one request it was dispatched with
C39_Witness ==
  /\ last.op = "resolve"
  /\ last.events # << >>
  /\ Len(arrays.objs) = 3
  /\ arrays.dispatched = {1, 2, 3}
  /\ Len(arrays.objs[1]) = 1
  /\ Len(arrays.objs[2]) = 2
  /\ arrays.objs[3] = << arrays.objs[2][2] >>
  /\ arrays.at[last.call.key] = 3
  /\ Entry(last.call.key).inFlight = arrays.objs[3]

====
